---- MODULE Spec2Model ----
(***************************************************************************)
(* Issue tracker API on Azure Cosmos DB: the document-store access layer   *)
(* (core/cosmos.js) and the request handlers of the auth, project, issue   *)
(* and comment routers.  Every handler is cut at its store calls (the      *)
(* awaits), so requests interleave exactly where the code can be           *)
(* suspended.                                                              *)
(***************************************************************************)
EXTENDS Integers, Sequences, FiniteSets, TLC

VARIABLES
  users,     \* documents of the Users container      (partition key /userId)
  projects,  \* documents of the Projects container   (partition key /projectId)
  issues,    \* documents of the Issues container     (partition key /_partitionKey)
  tokens,    \* payloads of the auth tokens issued so far
  nextId,    \* number of ids nanoid() has handed to documents (an id drawn by a
             \* request that is refused is dropped and never seen again)
  now,       \* the clock read by new Date()
  pc,        \* per request slot: the await the handler is suspended at
  loc,       \* per request slot: the handler's local variables
  res,       \* per request slot: the response sent to the slot's last request
  writes,    \* per request slot: the response writes attempted for the slot's last request
  boot       \* the process from module load to app.listen

vars == <<users, projects, issues, tokens, nextId, now, pc, loc, res, writes, boot>>

----------------------------------------------------------------------------
(* Bounds *)

MaxIds     == 5    \* ids handed out by nanoid()
MaxTime    == 1    \* clock ticks
MaxSlots   == 2    \* requests in flight at once
MaxPerKind == 1    \* documents per container in SpecWrites, projects in SpecNested
MaxProjects == 2   \* Project documents in SpecTracker
MaxIssues   == 2   \* Issue documents in SpecTracker
MaxComments == 2   \* Comment documents in SpecTracker
MaxUsers    == 2   \* User documents in SpecAudit and SpecSelfUpdate

Slots == 1..MaxSlots

----------------------------------------------------------------------------
(* Values *)

Null == [undefined |-> TRUE]
NoLocals == [op |-> "none"]
NoResponse == [status |-> 0]

\* what connect() returns
Handles == {"client", "database", "usersContainer", "projectsContainer", "issuesContainer"}

\* the order in which connect() obtains them
ConnectOrder == <<"client", "database", "usersContainer", "projectsContainer",
                  "issuesContainer">>

\* err.message of what a step of connect() may throw
ConnectErrors == {"ECONNREFUSED", "Unauthorized"}

\* the process when core/cosmos.js calls connect()
Booting == [phase |-> "connecting", handles |-> {}, error |-> "", listening |-> FALSE]

\* the process once every module is evaluated and app.listen has run
Listening == [phase |-> "listening", handles |-> Handles, error |-> "", listening |-> TRUE]

NanoId(k) == "n" \o ToString(k)
AllIds == {NanoId(k) : k \in 1..MaxIds}

\* an id nanoid() never returns: it stands for every id that names no document
NoId == NanoId(0)

\* ids a client may put in a URL for :projectId and for :issueId: the ids of the
\* stored documents and the ids stored documents refer to, which outlive a
\* deleted Project or Issue.  Ids that name no document and that no document
\* refers to all behave alike, NoId stands for them.
ProjectParams == {d.id : d \in projects} \cup {d.projectId : d \in issues} \cup {NoId}
IssueParams == {d.id : d \in issues} \cup {d.issueId : d \in issues} \cup {NoId}

tokenExpiresIn == "1h"

Pick(obj, keys) == [k \in (keys \cap DOMAIN obj) |-> obj[k]]

----------------------------------------------------------------------------
(* Validation: Joi string().email().lowercase().trim() of registerSchema   *)
(* and loginSchema.  A raw string is a sequence of characters.             *)

Lower(c) == CASE c = "A" -> "a" [] c = "B" -> "b" [] c = "X" -> "x" [] OTHER -> c

lowercase(s) == [i \in 1..Len(s) |-> Lower(s[i])]

RECURSIVE trimStart(_)
trimStart(s) == IF s # <<>> /\ Head(s) = " " THEN trimStart(Tail(s)) ELSE s

RECURSIVE trimEnd(_)
trimEnd(s) == IF s # <<>> /\ s[Len(s)] = " " THEN trimEnd(SubSeq(s, 1, Len(s) - 1)) ELSE s

trim(s) == trimEnd(trimStart(s))

RawEmails == { <<"a", "@", "x">>, <<" ", "A", "@", "X", " ">>, <<"b", "@", "x">> }
Passwords == { "password1", "password2" }

\* registerSchema as the first revision of the router had it: no lowercase(), no trim()
registerSchemaAsTyped(body) == body

\* the body validBody(registerSchema) hands to the handler
registerSchema(body) == [givenName |-> body.givenName, familyName |-> body.familyName,
                         email |-> trim(lowercase(body.email)), password |-> body.password]

\* the body validBody(loginSchema) hands to the handler
loginSchema(body) == [email |-> trim(lowercase(body.email)), password |-> body.password]

RegisterBodies == [givenName : {"Ann"}, familyName : {"Lee"}, email : RawEmails,
                   password : {"password1"}]
LoginBodies == [email : RawEmails, password : Passwords]

\* updateSchema: every key optional, email disabled
UpdateBodies == [givenName : {"Bea"}] \cup [password : {"password2"}]
                \cup [givenName : {"Bea"}, password : {"password2"}]

\* validBody(updateSchema): Joi refuses a body with a key the schema does not
\* declare, and the email key of updateSchema is commented out
updateSchemaKeys == {"givenName", "familyName", "password"}
updateSchema(body) == DOMAIN body \subseteq updateSchemaKeys

\* bodies of PUT /auth/me that name an email
EmailUpdateBodies == [email : {<<"a", "@", "x">>, <<"b", "@", "x">>, <<"c", "@", "x">>}]

\* projectSchema / issueSchema: title, description, priority all required
NewProjectBodies == [title : {"A"}, description : {"d"}, priority : {""}]
ProjectUpdates == [title : {"B"}, description : {"d"}, priority : {""}]
NewIssueBodies == [title : {"t"}, description : {"d"}, priority : {"low"}]
IssueUpdates == [title : {"u"}, description : {"d"}, priority : {"low"}]
\* commentSchema
CommentBodies == [text : {"c"}]

\* bcrypt.hash / bcrypt.compare
hash(password) == <<"bcrypt", password>>
compare(password, passwordHash) == passwordHash = hash(password)

----------------------------------------------------------------------------
(* core/cosmos.js: the generic container operations.  A container is the   *)
(* set of its documents; pkPath is the partition key path declared by      *)
(* connect().                                                              *)

UsersPk == "userId"
ProjectsPk == "projectId"
IssuesPk == "_partitionKey"

Has(container, pkPath, id, partitionKey) ==
  \E d \in container : d.id = id /\ d[pkPath] = partitionKey

\* container.item(id, partitionKey).read(): resource is undefined when absent
readItemFromContainer(container, pkPath, id, partitionKey) ==
  IF Has(container, pkPath, id, partitionKey)
  THEN CHOOSE d \in container : d.id = id /\ d[pkPath] = partitionKey
  ELSE Null

\* a create that also refuses an email another document of the container holds,
\* as a unique key on /email would
AddConflictUniqueEmail(container, pkPath, newItem) ==
  \/ Has(container, pkPath, newItem.id, newItem[pkPath])
  \/ "email" \in DOMAIN newItem /\ \E d \in container : d.email = newItem.email

\* container.items.create(newItem); the caller checks AddConflict first
AddConflict(container, pkPath, newItem) == Has(container, pkPath, newItem.id, newItem[pkPath])
addItemToContainer(container, newItem) == container \cup {newItem}

\* container.item(id, partitionKey).replace(body): throws when absent
replaceItemInContainer(container, pkPath, id, partitionKey, body) ==
  {d \in container : ~(d.id = id /\ d[pkPath] = partitionKey)} \cup {body}

\* container.item(id, partitionKey).delete(): throws when absent
removeItemFromContainer(container, pkPath, id, partitionKey) ==
  {d \in container : ~(d.id = id /\ d[pkPath] = partitionKey)}

\* SELECT * FROM c WHERE c.email = @email
getUserByEmailMatches(container, email) == {d \in container : d.email = email}

\* every sequence that lists the documents of S by createdOn ascending
RECURSIVE OrderByCreatedOnAsc(_)
OrderByCreatedOnAsc(S) ==
  IF S = {} THEN {<<>>}
  ELSE UNION { { <<d>> \o s : s \in OrderByCreatedOnAsc(S \ {d}) } :
               d \in {m \in S : \A e \in S : m.createdOn <= e.createdOn} }

\* every sequence that lists the documents of S by createdOn descending
RECURSIVE OrderByCreatedOnDesc(_)
OrderByCreatedOnDesc(S) ==
  IF S = {} THEN {<<>>}
  ELSE UNION { { <<d>> \o s : s \in OrderByCreatedOnDesc(S \ {d}) } :
               d \in {m \in S : \A e \in S : m.createdOn >= e.createdOn} }

\* every sequence that lists the documents of S in some order (no ORDER BY)
RECURSIVE AnyOrder(_)
AnyOrder(S) ==
  IF S = {} THEN {<<>>}
  ELSE UNION { { <<d>> \o s : s \in AnyOrder(S \ {d}) } : d \in S }

----------------------------------------------------------------------------
(* core/cosmos.js: the exported facades *)

Users_getById(container, userId) == readItemFromContainer(container, UsersPk, userId, userId)
Users_replace(container, userId, userData) ==
  replaceItemInContainer(container, UsersPk, userId, userId, userData)
Users_remove(container, userId) ==
  removeItemFromContainer(container, UsersPk, userId, userId)

\* a point read that answers with a document whether or not one is stored
Projects_getByIdBlind(container, projectId) ==
  IF Has(container, ProjectsPk, projectId, projectId)
  THEN readItemFromContainer(container, ProjectsPk, projectId, projectId)
  ELSE [id |-> projectId, projectId |-> projectId, type |-> "Project"]

Projects_getById(container, projectId) ==
  readItemFromContainer(container, ProjectsPk, projectId, projectId)
Projects_replace(container, projectId, projectData) ==
  replaceItemInContainer(container, ProjectsPk, projectId, projectId, projectData)
Projects_remove(container, projectId) ==
  removeItemFromContainer(container, ProjectsPk, projectId, projectId)

PartitionKey(projectId, issueId) == projectId \o ";" \o issueId

\* a point read that answers with a document whether or not one is stored
Issues_getByIdBlind(container, projectId, issueId) ==
  IF Has(container, IssuesPk, issueId, PartitionKey(projectId, issueId))
  THEN readItemFromContainer(container, IssuesPk, issueId, PartitionKey(projectId, issueId))
  ELSE [id |-> issueId, issueId |-> issueId, projectId |-> projectId, type |-> "Issue",
        _partitionKey |-> PartitionKey(projectId, issueId)]

\* a lookup by id alone, as getItemByIdFromContainer does (SELECT * FROM c WHERE c.id = @id)
Issues_getByIdOnly(container, projectId, issueId) ==
  IF \E d \in container : d.id = issueId
  THEN CHOOSE d \in container : d.id = issueId
  ELSE Null

\* a point read whose partition key is composed the other way round
Issues_getByIdSwapped(container, projectId, issueId) ==
  readItemFromContainer(container, IssuesPk, issueId, issueId \o ";" \o projectId)

Issues_getById(container, projectId, issueId) ==
  readItemFromContainer(container, IssuesPk, issueId, PartitionKey(projectId, issueId))

\* Issues.add sets _partitionKey and type on the item before creating it
Issues_addItem(newItem) ==
  [k \in DOMAIN newItem \cup {"_partitionKey", "type"} |->
     IF k = "_partitionKey" THEN PartitionKey(newItem.projectId, newItem.issueId)
     ELSE IF k = "type" THEN "Issue" ELSE newItem[k]]

Issues_replace(container, projectId, issueId, issueData) ==
  replaceItemInContainer(container, IssuesPk, issueId, PartitionKey(projectId, issueId), issueData)
Issues_remove(container, projectId, issueId) ==
  removeItemFromContainer(container, IssuesPk, issueId, PartitionKey(projectId, issueId))

\* SELECT * FROM c WHERE c.type = 'Issue' ORDER BY c.createdOn DESC
Issues_getAll(container) == OrderByCreatedOnDesc({d \in container : d.type = "Issue"})

\* ... WHERE c.projectId = @projectId AND c.type = 'Issue' ORDER BY c.createdOn DESC
Issues_getAllIssuesForProject(container, projectId) ==
  OrderByCreatedOnDesc({d \in container : d.projectId = projectId /\ d.type = "Issue"})

\* a comment filed under a partition key of its own
IssueComments_addItemOwnPartition(newItem) ==
  [k \in DOMAIN newItem \cup {"_partitionKey", "type"} |->
     IF k = "_partitionKey" THEN PartitionKey(newItem.projectId, newItem.id)
     ELSE IF k = "type" THEN "Comment" ELSE newItem[k]]

\* IssueComments.add sets _partitionKey and type on the item before creating it
IssueComments_addItem(newItem) ==
  [k \in DOMAIN newItem \cup {"_partitionKey", "type"} |->
     IF k = "_partitionKey" THEN PartitionKey(newItem.projectId, newItem.issueId)
     ELSE IF k = "type" THEN "Comment" ELSE newItem[k]]

\* SELECT * FROM c WHERE c.type = 'Comment' ORDER BY c.createdOn ASC
IssueComments_getAll(container) == OrderByCreatedOnAsc({d \in container : d.type = "Comment"})

\* the query without its type predicate
IssueComments_getAllForIssueUntyped(container, projectId, issueId) ==
  OrderByCreatedOnAsc({d \in container : d.projectId = projectId /\ d.issueId = issueId})

\* ... WHERE c.projectId = @projectId AND c.issueId = @issueId AND c.type = 'Comment'
\*     ORDER BY c.createdOn ASC
IssueComments_getAllCommentsForIssue(container, projectId, issueId) ==
  OrderByCreatedOnAsc({d \in container :
     d.projectId = projectId /\ d.issueId = issueId /\ d.type = "Comment"})

\* the earlier revision of the facade kept in src/core/cosmos.js:
\* Issues.getAll is SELECT * FROM c, getAllIssuesForProject filters on projectId only
getAllItemsFromContainer(container) == AnyOrder(container)
getAllItemsForProject(container, projectId) ==
  AnyOrder({d \in container : d.projectId = projectId})
Issues_getAll_core(container) == getAllItemsFromContainer(container)
Issues_getAllIssuesForProject_core(container, projectId) ==
  getAllItemsForProject(container, projectId)

----------------------------------------------------------------------------
(* Request plumbing *)

\* a merge that keeps the keys a document is addressed by and takes every other
\* field from data, dropping what data does not name
assignBodyOnly(obj, data) ==
  [k \in DOMAIN data \cup (DOMAIN obj \cap {"id", "projectId", "issueId", "_partitionKey", "type"}) |->
     IF k \in DOMAIN data THEN data[k] ELSE obj[k]]

\* for (const key in data) obj[key] = data[key]
assign(obj, data) ==
  [k \in DOMAIN obj \cup DOMAIN data |-> IF k \in DOMAIN data THEN data[k] ELSE obj[k]]

\* the handler returns (or falls off its end) after sending response
Done(r, locals, response) ==
  /\ pc' = [pc EXCEPT ![r] = "idle"]
  /\ loc' = [loc EXCEPT ![r] = locals]
  /\ res' = [res EXCEPT ![r] = response]
  /\ writes' = [writes EXCEPT ![r] = 1]
  /\ boot.listening
  /\ UNCHANGED boot

\* the handler is suspended at the store call named label
Await(r, label, locals) ==
  /\ pc' = [pc EXCEPT ![r] = label]
  /\ loc' = [loc EXCEPT ![r] = locals]
  /\ res' = [res EXCEPT ![r] = NoResponse]
  /\ writes' = [writes EXCEPT ![r] = 0]
  /\ boot.listening
  /\ UNCHANGED boot

\* the handler throws after it has sent response: asyncCatch passes the error to
\* the last handler of server.js, which writes a response of its own without
\* looking at res.headersSent.  The client keeps the first response.
DoneThenThrow(r, locals, response) ==
  /\ pc' = [pc EXCEPT ![r] = "idle"]
  /\ loc' = [loc EXCEPT ![r] = locals]
  /\ res' = [res EXCEPT ![r] = response]
  /\ writes' = [writes EXCEPT ![r] = 2]
  /\ boot.listening
  /\ UNCHANGED boot

\* a store call threw: asyncCatch passes the error to the last handler of server.js
Throw(r, message) == Done(r, loc[r], [status |-> 500, message |-> message])

\* a stamp without the userId of the requester
StampEmailOnly(auth) == Pick(auth, {"email"})

\* _.pick(req.auth, 'userId', 'email')
Stamp(auth) == Pick(auth, {"userId", "email"})

----------------------------------------------------------------------------
(* routes/api/auth.js *)

generateToken(user) == Pick(user, {"userId", "email", "givenName", "familyName"})

\* POST /auth/register, up to the await of Users.add
Register(r, raw) ==
  /\ pc[r] = "idle"
  /\ nextId < MaxIds
  /\ LET body == registerSchema(raw)
         userId == NanoId(nextId + 1)
         newUser == [id |-> userId, userId |-> userId, givenName |-> body.givenName,
                     familyName |-> body.familyName, email |-> body.email,
                     passwordHash |-> hash(body.password), type |-> "User",
                     registeredOn |-> now, lastLoginOn |-> now]
     IN IF getUserByEmailMatches(users, body.email) # {}
        THEN /\ Done(r, [op |-> "register", userId |-> userId, email |-> body.email],
                     [status |-> 400, message |-> "Email already in use.",
                      email |-> body.email])
             /\ UNCHANGED nextId
        ELSE /\ Await(r, "register_add",
                      [op |-> "register", userId |-> userId, email |-> body.email,
                       newUser |-> newUser, token |-> generateToken(newUser)])
             /\ nextId' = nextId + 1
  /\ UNCHANGED <<users, projects, issues, tokens, now>>

\* POST /auth/register, Users.add and the response
RegisterAdd(r) ==
  /\ pc[r] = "register_add"
  /\ IF AddConflict(users, UsersPk, loc[r].newUser)
     THEN Throw(r, "Conflict") /\ UNCHANGED <<users, tokens>>
     ELSE /\ users' = addItemToContainer(users, loc[r].newUser)
          /\ tokens' = tokens \cup {loc[r].token}
          /\ Done(r, loc[r], [status |-> 200, message |-> "User registered.",
                              userId |-> loc[r].userId, email |-> loc[r].email,
                              token |-> loc[r].token, tokenExpiresIn |-> tokenExpiresIn])
  /\ UNCHANGED <<projects, issues, nextId, now>>

\* POST /auth/login, up to the await of Users.replace
Login(r, raw) ==
  /\ pc[r] = "idle"
  /\ LET body == loginSchema(raw)
         found == getUserByEmailMatches(users, body.email)
         refuse == Done(r, [op |-> "login", email |-> body.email],
                        [status |-> 400, message |-> "Incorrect email or password.",
                         email |-> body.email])
     IN IF found = {} THEN refuse
        ELSE \E user \in found :
               IF ~compare(body.password, user.passwordHash) THEN refuse
               ELSE Await(r, "login_replace",
                          [op |-> "login", userId |-> user.userId, email |-> body.email,
                           user |-> user, token |-> generateToken(user)])
  /\ UNCHANGED <<users, projects, issues, tokens, nextId, now>>

\* a login that patches lastLoginOn into the document as it is stored now
LoginReplacePatch(r) ==
  /\ pc[r] = "login_replace"
  /\ IF ~Has(users, UsersPk, loc[r].userId, loc[r].userId)
     THEN Throw(r, "NotFound") /\ UNCHANGED <<users, tokens>>
     ELSE /\ users' = Users_replace(users, loc[r].userId,
                         [Users_getById(users, loc[r].userId) EXCEPT !.lastLoginOn = now])
          /\ tokens' = tokens \cup {loc[r].token}
          /\ Done(r, loc[r], [status |-> 200, message |-> "User logged in.",
                              userId |-> loc[r].userId, email |-> loc[r].email,
                              token |-> loc[r].token, tokenExpiresIn |-> tokenExpiresIn])
  /\ UNCHANGED <<projects, issues, nextId, now>>

\* POST /auth/login, the lastLoginOn stamp, Users.replace and the response
LoginReplace(r) ==
  /\ pc[r] = "login_replace"
  /\ LET user == [loc[r].user EXCEPT !.lastLoginOn = now]
     IN IF ~Has(users, UsersPk, loc[r].userId, loc[r].userId)
        THEN Throw(r, "NotFound") /\ UNCHANGED <<users, tokens>>
        ELSE /\ users' = Users_replace(users, loc[r].userId, user)
             /\ tokens' = tokens \cup {loc[r].token}
             /\ Done(r, loc[r], [status |-> 200, message |-> "User logged in.",
                                 userId |-> loc[r].userId, email |-> loc[r].email,
                                 token |-> loc[r].token, tokenExpiresIn |-> tokenExpiresIn])
  /\ UNCHANGED <<projects, issues, nextId, now>>

\* a read of the own profile that answers with the stored document as it is
GetMeUnpicked(r, auth) ==
  /\ pc[r] = "idle"
  /\ LET user == Users_getById(users, auth.userId)
     IN IF user = Null
        THEN Done(r, [op |-> "getMe", userId |-> auth.userId],
                  [status |-> 404, message |-> "User not found.", userId |-> auth.userId])
        ELSE Done(r, [op |-> "getMe", userId |-> auth.userId],
                  [status |-> 200, user |-> user])
  /\ UNCHANGED <<users, projects, issues, tokens, nextId, now>>

\* GET /auth/me
GetMe(r, auth) ==
  /\ pc[r] = "idle"
  /\ LET user == Users_getById(users, auth.userId)
     IN IF user = Null
        THEN Done(r, [op |-> "getMe", userId |-> auth.userId],
                  [status |-> 404, message |-> "User not found.", userId |-> auth.userId])
        ELSE Done(r, [op |-> "getMe", userId |-> auth.userId],
                  [status |-> 200,
                   user |-> Pick(user, {"userId", "email", "givenName", "familyName",
                                        "registeredOn", "lastLoginOn"})])
  /\ UNCHANGED <<users, projects, issues, tokens, nextId, now>>

\* a loop that copies every key of the body, id and type included
updateUserRetyped(user, userData) ==
  [k \in DOMAIN user \cup DOMAIN userData |->
     IF k = "type" THEN "Admin" ELSE IF k \in DOMAIN userData THEN userData[k] ELSE user[k]]

\* PUT /auth/me: the loop over the keys of the body.  The email key is copied
\* once the handler has found it free; a password is stored as its hash.
updateUser(user, userData) ==
  LET plain == DOMAIN userData \ {"password"}
      hashed == IF "password" \in DOMAIN userData THEN {"passwordHash"} ELSE {}
  IN [k \in DOMAIN user \cup plain \cup hashed |->
        IF k \in hashed THEN hash(userData.password)
        ELSE IF k \in plain THEN userData[k]
        ELSE user[k]]

\* PUT /auth/me, up to the await of Users.replace
UpdateMe(r, auth, userData) ==
  /\ pc[r] = "idle"
  /\ LET user == Users_getById(users, auth.userId)
         changesEmail == "email" \in DOMAIN userData /\ userData.email # user.email
         found == IF changesEmail THEN getUserByEmailMatches(users, userData.email) ELSE {}
         accept == Await(r, "updateMe_replace",
                         [op |-> "updateMe", userId |-> auth.userId, data |-> userData,
                          read |-> user, user |-> updateUser(user, userData),
                          token |-> generateToken(updateUser(user, userData))])
     IN IF ~updateSchema(userData)
        THEN Done(r, [op |-> "updateMe", userId |-> auth.userId, data |-> userData],
                  [status |-> 400, message |-> "ValidationError"])
        ELSE IF user = Null
        THEN Done(r, [op |-> "updateMe", userId |-> auth.userId],
                  [status |-> 404, message |-> "User not found.", userId |-> auth.userId])
        ELSE IF found = {} THEN accept
        ELSE \E existingUser \in found :
               IF existingUser.id # auth.userId
               THEN Done(r, [op |-> "updateMe", userId |-> auth.userId, data |-> userData],
                         [status |-> 400, message |-> "Email already in use.",
                          email |-> userData.email])
               ELSE accept
  /\ UNCHANGED <<users, projects, issues, tokens, nextId, now>>

\* a replace that is refused when the stored document is not the one that was
\* read, as a replace with an If-Match on the _etag would be
UpdateMeReplaceIfMatch(r) ==
  /\ pc[r] = "updateMe_replace"
  /\ IF Users_getById(users, loc[r].userId) # loc[r].read
     THEN Throw(r, "PreconditionFailed") /\ UNCHANGED <<users, tokens>>
     ELSE /\ users' = Users_replace(users, loc[r].userId, loc[r].user)
          /\ tokens' = tokens \cup {loc[r].token}
          /\ Done(r, loc[r], [status |-> 200, message |-> "User updated.",
                              userId |-> loc[r].userId, email |-> loc[r].user.email,
                              token |-> loc[r].token, tokenExpiresIn |-> tokenExpiresIn])
  /\ UNCHANGED <<projects, issues, nextId, now>>

\* PUT /auth/me, Users.replace and the response
UpdateMeReplace(r) ==
  /\ pc[r] = "updateMe_replace"
  /\ IF ~Has(users, UsersPk, loc[r].userId, loc[r].userId)
     THEN Throw(r, "NotFound") /\ UNCHANGED <<users, tokens>>
     ELSE /\ users' = Users_replace(users, loc[r].userId, loc[r].user)
          /\ tokens' = tokens \cup {loc[r].token}
          /\ Done(r, loc[r], [status |-> 200, message |-> "User updated.",
                              userId |-> loc[r].userId, email |-> loc[r].user.email,
                              token |-> loc[r].token, tokenExpiresIn |-> tokenExpiresIn])
  /\ UNCHANGED <<projects, issues, nextId, now>>

\* Users.remove(userId): exported by the facade.  No router calls it; the call
\* comes from other code that imports the facade.  It throws when the document
\* is absent and then changes nothing.
RemoveUser(userId) ==
  /\ Has(users, UsersPk, userId, userId)
  /\ users' = Users_remove(users, userId)
  /\ UNCHANGED <<projects, issues, tokens, nextId, now, pc, loc, res, writes, boot>>

----------------------------------------------------------------------------
(* routes/api/project.js *)

\* GET /project/:projectId
GetProject(r, auth, projectId) ==
  /\ pc[r] = "idle"
  /\ LET project == Projects_getById(projects, projectId)
         locals == [op |-> "getProject", projectId |-> projectId]
     IN IF project = Null
        THEN Done(r, locals, [status |-> 404, message |-> "Project not found.", id |-> projectId])
        ELSE Done(r, locals, [status |-> 200, resource |-> project])
  /\ UNCHANGED <<users, projects, issues, tokens, nextId, now>>

\* PUT /project/new.  After res.json the handler logs `issueId`, a name that is
\* not defined in the module, so it ends with a ReferenceError.
CreateProject(r, auth, body) ==
  /\ pc[r] = "idle"
  /\ nextId < MaxIds
  /\ nextId' = nextId + 1
  /\ LET projectId == NanoId(nextId + 1)
         newProject == assign(body, [id |-> projectId, projectId |-> projectId,
                                     type |-> "Project", createdOn |-> now,
                                     createdBy |-> Stamp(auth)])
         locals == [op |-> "createProject", projectId |-> projectId, body |-> body,
                    auth |-> auth, newProject |-> newProject]
     IN IF AddConflict(projects, ProjectsPk, newProject)
        THEN Done(r, locals, [status |-> 500, message |-> "Conflict"])
             /\ UNCHANGED projects
        ELSE /\ projects' = addItemToContainer(projects, newProject)
             /\ DoneThenThrow(r, locals, [status |-> 200, message |-> "Project created.",
                                          id |-> projectId, resource |-> newProject])
  /\ UNCHANGED <<users, issues, tokens, now>>

\* PUT /project/:projectId, up to the await of Projects.replace
UpdateProject(r, auth, projectId, projectData) ==
  /\ pc[r] = "idle"
  /\ LET read == Projects_getById(projects, projectId)
         project == assign(assign(read, projectData),
                           [lastUpdatedOn |-> now, lastUpdatedBy |-> Stamp(auth)])
     IN IF read = Null
        THEN Done(r, [op |-> "updateProject", projectId |-> projectId],
                  [status |-> 404, message |-> "Project not found.", id |-> projectId])
        ELSE Await(r, "updateProject_replace",
                   [op |-> "updateProject", projectId |-> projectId, data |-> projectData,
                    auth |-> auth, read |-> read, project |-> project])
  /\ UNCHANGED <<users, projects, issues, tokens, nextId, now>>

\* PUT /project/:projectId, Projects.replace and the response
UpdateProjectReplace(r) ==
  /\ pc[r] = "updateProject_replace"
  /\ IF ~Has(projects, ProjectsPk, loc[r].projectId, loc[r].projectId)
     THEN Throw(r, "NotFound") /\ UNCHANGED projects
     ELSE /\ projects' = Projects_replace(projects, loc[r].projectId, loc[r].project)
          /\ Done(r, loc[r], [status |-> 200, message |-> "Project updated.",
                              id |-> loc[r].projectId, resource |-> loc[r].project])
  /\ UNCHANGED <<users, issues, tokens, nextId, now>>

\* DELETE /project/:projectId, up to the await of Projects.remove
DeleteProject(r, auth, projectId) ==
  /\ pc[r] = "idle"
  /\ LET project == Projects_getById(projects, projectId)
         locals == [op |-> "deleteProject", projectId |-> projectId]
     IN IF project = Null
        THEN Done(r, locals, [status |-> 404, message |-> "Project not found.", id |-> projectId])
        ELSE Await(r, "deleteProject_remove", locals)
  /\ UNCHANGED <<users, projects, issues, tokens, nextId, now>>

\* a delete that cascades to the documents filed under the project
DeleteProjectRemoveCascade(r) ==
  /\ pc[r] = "deleteProject_remove"
  /\ IF ~Has(projects, ProjectsPk, loc[r].projectId, loc[r].projectId)
     THEN Throw(r, "NotFound") /\ UNCHANGED <<projects, issues>>
     ELSE /\ projects' = Projects_remove(projects, loc[r].projectId)
          /\ issues' = {d \in issues : d.projectId # loc[r].projectId}
          /\ Done(r, loc[r], [status |-> 200, message |-> "Project removed.",
                              id |-> loc[r].projectId])
  /\ UNCHANGED <<users, tokens, nextId, now>>

\* DELETE /project/:projectId, Projects.remove and the response
DeleteProjectRemove(r) ==
  /\ pc[r] = "deleteProject_remove"
  /\ IF ~Has(projects, ProjectsPk, loc[r].projectId, loc[r].projectId)
     THEN Throw(r, "NotFound") /\ UNCHANGED projects
     ELSE /\ projects' = Projects_remove(projects, loc[r].projectId)
          /\ Done(r, loc[r], [status |-> 200, message |-> "Project removed.",
                              id |-> loc[r].projectId])
  /\ UNCHANGED <<users, issues, tokens, nextId, now>>

----------------------------------------------------------------------------
(* routes/api/issue.js (the router of /project/:projectId/issue) *)

\* GET /issue/list
GetIssueList(r, auth) ==
  /\ pc[r] = "idle"
  /\ \E list \in Issues_getAll(issues) :
       Done(r, [op |-> "getIssueList"], [status |-> 200, list |-> list])
  /\ UNCHANGED <<users, projects, issues, tokens, nextId, now>>

\* GET /project/:projectId/issue/list
GetIssueListForProject(r, auth, projectId) ==
  /\ pc[r] = "idle"
  /\ \E list \in Issues_getAllIssuesForProject(issues, projectId) :
       Done(r, [op |-> "getIssueListForProject", projectId |-> projectId],
            [status |-> 200, list |-> list])
  /\ UNCHANGED <<users, projects, issues, tokens, nextId, now>>

\* GET /issue/list served through the facade of src/core/cosmos.js
GetIssueListCore(r, auth) ==
  /\ pc[r] = "idle"
  /\ \E list \in Issues_getAll_core(issues) :
       Done(r, [op |-> "getIssueList"], [status |-> 200, list |-> list])
  /\ UNCHANGED <<users, projects, issues, tokens, nextId, now>>

\* GET /project/:projectId/issue/list served through the facade of src/core/cosmos.js
GetIssueListForProjectCore(r, auth, projectId) ==
  /\ pc[r] = "idle"
  /\ \E list \in Issues_getAllIssuesForProject_core(issues, projectId) :
       Done(r, [op |-> "getIssueListForProject", projectId |-> projectId],
            [status |-> 200, list |-> list])
  /\ UNCHANGED <<users, projects, issues, tokens, nextId, now>>

\* GET /project/:projectId/issue/:issueId
GetIssue(r, auth, projectId, issueId) ==
  /\ pc[r] = "idle"
  /\ LET issue == Issues_getById(issues, projectId, issueId)
         locals == [op |-> "getIssue", projectId |-> projectId, issueId |-> issueId]
     IN IF issue = Null
        THEN Done(r, locals, [status |-> 404, message |-> "Issue not found.",
                              projectId |-> projectId, issueId |-> issueId])
        ELSE Done(r, locals, [status |-> 200, resource |-> issue])
  /\ UNCHANGED <<users, projects, issues, tokens, nextId, now>>

\* PUT /project/:projectId/issue/new, up to the await of Issues.add
CreateIssue(r, auth, projectId, body) ==
  /\ pc[r] = "idle"
  /\ nextId < MaxIds
  /\ LET issueId == NanoId(nextId + 1)
         project == Projects_getById(projects, projectId)
         newIssue == assign(body, [id |-> issueId, issueId |-> issueId,
                                   projectId |-> projectId, type |-> "Issue",
                                   createdOn |-> now, createdBy |-> Stamp(auth)])
     IN IF project = Null
        THEN /\ Done(r, [op |-> "createIssue", projectId |-> projectId,
                         issueId |-> issueId, found |-> FALSE],
                     [status |-> 404, message |-> "Project not found.",
                      projectId |-> projectId])
             /\ UNCHANGED nextId
        ELSE /\ Await(r, "createIssue_add",
                      [op |-> "createIssue", projectId |-> projectId, issueId |-> issueId,
                       found |-> TRUE, project |-> project, body |-> body, auth |-> auth,
                       newIssue |-> newIssue])
             /\ nextId' = nextId + 1
  /\ UNCHANGED <<users, projects, issues, tokens, now>>

\* an insert that reads the Project again and fails when it is gone
CreateIssueAddChecked(r) ==
  /\ pc[r] = "createIssue_add"
  /\ LET item == Issues_addItem(loc[r].newIssue)
     IN IF Projects_getById(projects, loc[r].projectId) = Null
           \/ AddConflict(issues, IssuesPk, item)
        THEN Throw(r, "Conflict") /\ UNCHANGED issues
        ELSE /\ issues' = addItemToContainer(issues, item)
             /\ Done(r, loc[r], [status |-> 200, message |-> "Issue created.",
                                 id |-> loc[r].issueId, resource |-> item])
  /\ UNCHANGED <<users, projects, tokens, nextId, now>>

\* PUT /project/:projectId/issue/new, Issues.add and the response
CreateIssueAdd(r) ==
  /\ pc[r] = "createIssue_add"
  /\ LET item == Issues_addItem(loc[r].newIssue)
     IN IF AddConflict(issues, IssuesPk, item)
        THEN Throw(r, "Conflict") /\ UNCHANGED issues
        ELSE /\ issues' = addItemToContainer(issues, item)
             /\ Done(r, loc[r], [status |-> 200, message |-> "Issue created.",
                                 id |-> loc[r].issueId, resource |-> item])
  /\ UNCHANGED <<users, projects, tokens, nextId, now>>

\* PUT /project/:projectId/issue/:issueId, up to the await of Issues.replace
UpdateIssue(r, auth, projectId, issueId, issueData) ==
  /\ pc[r] = "idle"
  /\ LET read == Issues_getById(issues, projectId, issueId)
         issue == assign(assign(read, issueData),
                         [lastUpdatedOn |-> now, lastUpdatedBy |-> Stamp(auth)])
     IN IF read = Null
        THEN Done(r, [op |-> "updateIssue", projectId |-> projectId, issueId |-> issueId],
                  [status |-> 404, message |-> "Issue not found.", id |-> issueId])
        ELSE Await(r, "updateIssue_replace",
                   [op |-> "updateIssue", projectId |-> projectId, issueId |-> issueId,
                    data |-> issueData, auth |-> auth, read |-> read, issue |-> issue])
  /\ UNCHANGED <<users, projects, issues, tokens, nextId, now>>

\* a replace that stores the body whether or not the document is there, as
\* items.upsert would
UpdateIssueReplaceUpsert(r) ==
  /\ pc[r] = "updateIssue_replace"
  /\ issues' = Issues_replace(issues, loc[r].projectId, loc[r].issueId, loc[r].issue)
  /\ Done(r, loc[r], [status |-> 200, message |-> "Issue updated.",
                      id |-> loc[r].issueId, resource |-> loc[r].issue])
  /\ UNCHANGED <<users, projects, tokens, nextId, now>>

\* PUT /project/:projectId/issue/:issueId, Issues.replace and the response
UpdateIssueReplace(r) ==
  /\ pc[r] = "updateIssue_replace"
  /\ IF ~Has(issues, IssuesPk, loc[r].issueId, PartitionKey(loc[r].projectId, loc[r].issueId))
     THEN Throw(r, "NotFound") /\ UNCHANGED issues
     ELSE /\ issues' = Issues_replace(issues, loc[r].projectId, loc[r].issueId, loc[r].issue)
          /\ Done(r, loc[r], [status |-> 200, message |-> "Issue updated.",
                              id |-> loc[r].issueId, resource |-> loc[r].issue])
  /\ UNCHANGED <<users, projects, tokens, nextId, now>>

\* DELETE /project/:projectId/issue/:issueId, up to the await of Issues.remove
DeleteIssue(r, auth, projectId, issueId) ==
  /\ pc[r] = "idle"
  /\ LET issue == Issues_getById(issues, projectId, issueId)
         locals == [op |-> "deleteIssue", projectId |-> projectId, issueId |-> issueId]
     IN IF issue = Null
        THEN Done(r, locals, [status |-> 404, message |-> "Issue not found.", id |-> issueId])
        ELSE Await(r, "deleteIssue_remove", locals)
  /\ UNCHANGED <<users, projects, issues, tokens, nextId, now>>

\* a remove that takes the Comments of the Issue with it
DeleteIssueRemoveCascade(r) ==
  /\ pc[r] = "deleteIssue_remove"
  /\ IF ~Has(issues, IssuesPk, loc[r].issueId, PartitionKey(loc[r].projectId, loc[r].issueId))
     THEN Throw(r, "NotFound") /\ UNCHANGED issues
     ELSE /\ issues' = {d \in issues : ~(d.projectId = loc[r].projectId
                                         /\ d.issueId = loc[r].issueId)}
          /\ Done(r, loc[r], [status |-> 200, message |-> "Issue removed.",
                              id |-> loc[r].issueId])
  /\ UNCHANGED <<users, projects, tokens, nextId, now>>

\* a remove that reports the removal of a document that is already gone
DeleteIssueRemoveQuiet(r) ==
  /\ pc[r] = "deleteIssue_remove"
  /\ issues' = {d \in issues : d.id # loc[r].issueId}
  /\ Done(r, loc[r], [status |-> 200, message |-> "Issue removed.", id |-> loc[r].issueId])
  /\ UNCHANGED <<users, projects, tokens, nextId, now>>

\* DELETE /project/:projectId/issue/:issueId, Issues.remove and the response
DeleteIssueRemove(r) ==
  /\ pc[r] = "deleteIssue_remove"
  /\ IF ~Has(issues, IssuesPk, loc[r].issueId, PartitionKey(loc[r].projectId, loc[r].issueId))
     THEN Throw(r, "NotFound") /\ UNCHANGED issues
     ELSE /\ issues' = Issues_remove(issues, loc[r].projectId, loc[r].issueId)
          /\ Done(r, loc[r], [status |-> 200, message |-> "Issue removed.",
                              id |-> loc[r].issueId])
  /\ UNCHANGED <<users, projects, tokens, nextId, now>>

----------------------------------------------------------------------------
(* routes/api/comment.js *)

\* GET /comment/list
GetCommentList(r, auth) ==
  /\ pc[r] = "idle"
  /\ \E list \in IssueComments_getAll(issues) :
       Done(r, [op |-> "getCommentList"], [status |-> 200, list |-> list])
  /\ UNCHANGED <<users, projects, issues, tokens, nextId, now>>

\* GET /project/:projectId/issue/:issueId/comment/list
GetCommentListForIssue(r, auth, projectId, issueId) ==
  /\ pc[r] = "idle"
  /\ \E list \in IssueComments_getAllCommentsForIssue(issues, projectId, issueId) :
       Done(r, [op |-> "getCommentListForIssue", projectId |-> projectId,
                issueId |-> issueId],
            [status |-> 200, list |-> list])
  /\ UNCHANGED <<users, projects, issues, tokens, nextId, now>>

\* PUT /project/:projectId/issue/:issueId/comment/new, up to the await of IssueComments.add
CreateComment(r, auth, projectId, issueId, body) ==
  /\ pc[r] = "idle"
  /\ nextId < MaxIds
  /\ LET commentId == NanoId(nextId + 1)
         issue == Issues_getById(issues, projectId, issueId)
         newComment == assign(body, [id |-> commentId, issueId |-> issueId,
                                     projectId |-> projectId, type |-> "Comment",
                                     createdOn |-> now, createdBy |-> Stamp(auth)])
     IN IF issue = Null
        THEN /\ Done(r, [op |-> "createComment", projectId |-> projectId,
                         issueId |-> issueId, commentId |-> commentId, found |-> FALSE],
                     [status |-> 404, message |-> "Issue not found.", issueId |-> issueId])
             /\ UNCHANGED nextId
        ELSE /\ Await(r, "createComment_add",
                      [op |-> "createComment", projectId |-> projectId, issueId |-> issueId,
                       commentId |-> commentId, found |-> TRUE, issue |-> issue,
                       body |-> body, auth |-> auth, newComment |-> newComment])
             /\ nextId' = nextId + 1
  /\ UNCHANGED <<users, projects, issues, tokens, now>>

\* PUT /project/:projectId/issue/:issueId/comment/new, IssueComments.add and the response
CreateCommentAdd(r) ==
  /\ pc[r] = "createComment_add"
  /\ LET item == IssueComments_addItem(loc[r].newComment)
     IN IF AddConflict(issues, IssuesPk, item)
        THEN Throw(r, "Conflict") /\ UNCHANGED issues
        ELSE /\ issues' = addItemToContainer(issues, item)
             /\ Done(r, loc[r], [status |-> 200, message |-> "Comment created.",
                                 id |-> loc[r].issueId, resource |-> item])
  /\ UNCHANGED <<users, projects, tokens, nextId, now>>

----------------------------------------------------------------------------
(* The clock, construction and the specifications *)

\* connect(): the next of new CosmosClient, databases.createIfNotExists and the
\* three createContainer calls succeeds; after the last one connect() returns
ConnectProceed ==
  /\ boot.phase = "connecting"
  /\ LET n == Cardinality(boot.handles) + 1
     IN boot' = [boot EXCEPT !.handles = @ \cup {ConnectOrder[n]},
                             !.phase = IF n = Len(ConnectOrder) THEN "connected"
                                       ELSE "connecting"]
  /\ UNCHANGED <<users, projects, issues, tokens, nextId, now, pc, loc, res, writes>>

\* connect(): the step at hand throws; the catch wraps and rethrows, the
\* top-level await rejects and no module that imports core/cosmos.js is evaluated
ConnectFail(message) ==
  /\ boot.phase = "connecting"
  /\ boot' = [boot EXCEPT !.phase = "failed",
                          !.error = "Failed to connect to Cosmos DB: " \o message]
  /\ UNCHANGED <<users, projects, issues, tokens, nextId, now, pc, loc, res, writes>>

\* a server that listens without waiting for connect()
ListenAtOnce ==
  /\ boot.phase \in {"connecting", "connected"}
  /\ boot' = [boot EXCEPT !.phase = "listening", !.listening = TRUE]
  /\ UNCHANGED <<users, projects, issues, tokens, nextId, now, pc, loc, res, writes>>

\* server.js: its imports are evaluated, the module body runs app.listen
Listen ==
  /\ boot.phase = "connected"
  /\ boot' = [boot EXCEPT !.phase = "listening", !.listening = TRUE]
  /\ UNCHANGED <<users, projects, issues, tokens, nextId, now, pc, loc, res, writes>>

Tick ==
  /\ now < MaxTime
  /\ now' = now + 1
  /\ UNCHANGED <<users, projects, issues, tokens, nextId, pc, loc, res, writes, boot>>

Init ==
  /\ users = {}
  /\ projects = {}
  /\ issues = {}
  /\ tokens = {}
  /\ nextId = 0
  /\ now = 0
  /\ pc = [r \in Slots |-> "idle"]
  /\ loc = [r \in Slots |-> NoLocals]
  /\ res = [r \in Slots |-> NoResponse]
  /\ writes = [r \in Slots |-> 0]
  /\ boot = Listening

\* the requests of the auth router
AuthNext(r) ==
  \/ \E raw \in RegisterBodies : Register(r, raw)
  \/ RegisterAdd(r)
  \/ \E raw \in LoginBodies : Login(r, raw)
  \/ LoginReplace(r)
  \/ \E auth \in tokens : GetMe(r, auth)
  \/ \E auth \in tokens, userData \in UpdateBodies : UpdateMe(r, auth, userData)
  \/ UpdateMeReplace(r)

\* the requests of the project router
ProjectNext(r) ==
  \/ \E auth \in tokens, projectId \in ProjectParams : GetProject(r, auth, projectId)
  \/ \E auth \in tokens, body \in NewProjectBodies : CreateProject(r, auth, body)
  \/ \E auth \in tokens, projectId \in ProjectParams, body \in ProjectUpdates :
       UpdateProject(r, auth, projectId, body)
  \/ UpdateProjectReplace(r)
  \/ \E auth \in tokens, projectId \in ProjectParams : DeleteProject(r, auth, projectId)
  \/ DeleteProjectRemove(r)

\* the requests of the issue router
IssueNext(r) ==
  \/ \E auth \in tokens : GetIssueList(r, auth)
  \/ \E auth \in tokens, projectId \in ProjectParams :
       GetIssueListForProject(r, auth, projectId)
  \/ \E auth \in tokens, projectId \in ProjectParams, issueId \in IssueParams :
       GetIssue(r, auth, projectId, issueId)
  \/ \E auth \in tokens, projectId \in ProjectParams, body \in NewIssueBodies :
       CreateIssue(r, auth, projectId, body)
  \/ CreateIssueAdd(r)
  \/ \E auth \in tokens, projectId \in ProjectParams, issueId \in IssueParams,
        body \in IssueUpdates : UpdateIssue(r, auth, projectId, issueId, body)
  \/ UpdateIssueReplace(r)
  \/ \E auth \in tokens, projectId \in ProjectParams, issueId \in IssueParams :
       DeleteIssue(r, auth, projectId, issueId)
  \/ DeleteIssueRemove(r)

\* the requests of the comment router
CommentNext(r) ==
  \/ \E auth \in tokens : GetCommentList(r, auth)
  \/ \E auth \in tokens, projectId \in ProjectParams, issueId \in IssueParams :
       GetCommentListForIssue(r, auth, projectId, issueId)
  \/ \E auth \in tokens, projectId \in ProjectParams, issueId \in IssueParams,
        body \in CommentBodies : CreateComment(r, auth, projectId, issueId, body)
  \/ CreateCommentAdd(r)

Next ==
  \/ \E r \in Slots : AuthNext(r) \/ ProjectNext(r) \/ IssueNext(r) \/ CommentNext(r)
  \/ Tick

Spec == Init /\ [][Next]_vars

----------------------------------------------------------------------------
(* Bounded specifications.  Spec is the whole service.  The others run a   *)
(* part of it: slot 1 alone serves one request at a time.                  *)

\* The database outlives the process, so connect() may find documents of earlier
\* runs.  InitRegistered is the state SpecAuth reaches when slot 1 has registered
\* a@x at time 0.
FirstUser ==
  [id |-> NanoId(1), userId |-> NanoId(1), givenName |-> "Ann", familyName |-> "Lee",
   email |-> <<"a", "@", "x">>, passwordHash |-> hash("password1"), type |-> "User",
   registeredOn |-> 0, lastLoginOn |-> 0]

InitRegistered ==
  /\ users = {FirstUser}
  /\ projects = {}
  /\ issues = {}
  /\ tokens = {generateToken(FirstUser)}
  /\ nextId = 1
  /\ now = 0
  /\ pc = [r \in Slots |-> "idle"]
  /\ loc = [r \in Slots |->
             IF r = 1 THEN [op |-> "register", userId |-> NanoId(1),
                            email |-> FirstUser.email, newUser |-> FirstUser,
                            token |-> generateToken(FirstUser)]
             ELSE NoLocals]
  /\ res = [r \in Slots |->
             IF r = 1 THEN [status |-> 200, message |-> "User registered.",
                            userId |-> NanoId(1), email |-> FirstUser.email,
                            token |-> generateToken(FirstUser),
                            tokenExpiresIn |-> tokenExpiresIn]
             ELSE NoResponse]
  /\ writes = [r \in Slots |-> IF r = 1 THEN 1 ELSE 0]
  /\ boot = Listening

\* the auth router, one request at a time
SpecAuth == Init /\ [][AuthNext(1) \/ Tick]_vars

Count(type) == Cardinality({d \in issues : d.type = type})

\* the handlers that write Projects, Issues and Comments and the point read of an
\* Issue, one request at a time
TrackerNext(r) ==
  \/ Cardinality(projects) < MaxProjects
       /\ \E auth \in tokens, body \in NewProjectBodies : CreateProject(r, auth, body)
  \/ \E auth \in tokens, projectId \in ProjectParams, body \in ProjectUpdates :
       UpdateProject(r, auth, projectId, body)
  \/ UpdateProjectReplace(r)
  \/ \E auth \in tokens, projectId \in ProjectParams : DeleteProject(r, auth, projectId)
  \/ DeleteProjectRemove(r)
  \/ \E auth \in tokens, projectId \in ProjectParams, issueId \in IssueParams :
       GetIssue(r, auth, projectId, issueId)
  \/ Count("Issue") < MaxIssues
       /\ \E auth \in tokens, projectId \in ProjectParams, body \in NewIssueBodies :
            CreateIssue(r, auth, projectId, body)
  \/ CreateIssueAdd(r)
  \/ \E auth \in tokens, projectId \in ProjectParams, issueId \in IssueParams,
        body \in IssueUpdates : UpdateIssue(r, auth, projectId, issueId, body)
  \/ UpdateIssueReplace(r)
  \/ \E auth \in tokens, projectId \in ProjectParams, issueId \in IssueParams :
       DeleteIssue(r, auth, projectId, issueId)
  \/ DeleteIssueRemove(r)
  \/ Count("Comment") < MaxComments
       /\ \E auth \in tokens, projectId \in ProjectParams, issueId \in IssueParams,
             body \in CommentBodies : CreateComment(r, auth, projectId, issueId, body)
  \/ CreateCommentAdd(r)

SpecTracker == InitRegistered /\ [][TrackerNext(1) \/ Tick]_vars

\* the handlers that fill the Issues container and the handlers that list it, one
\* request at a time
ListingNext(r) ==
  \/ \E auth \in tokens, body \in NewProjectBodies : CreateProject(r, auth, body)
  \/ \E auth \in tokens, projectId \in ProjectParams, body \in NewIssueBodies :
       CreateIssue(r, auth, projectId, body)
  \/ CreateIssueAdd(r)
  \/ \E auth \in tokens, projectId \in ProjectParams, issueId \in IssueParams :
       DeleteIssue(r, auth, projectId, issueId)
  \/ DeleteIssueRemove(r)
  \/ \E auth \in tokens, projectId \in ProjectParams, issueId \in IssueParams,
        body \in CommentBodies : CreateComment(r, auth, projectId, issueId, body)
  \/ CreateCommentAdd(r)
  \/ \E auth \in tokens : GetIssueList(r, auth)
  \/ \E auth \in tokens, projectId \in ProjectParams :
       GetIssueListForProject(r, auth, projectId)
  \/ \E auth \in tokens : GetCommentList(r, auth)
  \/ \E auth \in tokens, projectId \in ProjectParams, issueId \in IssueParams :
       GetCommentListForIssue(r, auth, projectId, issueId)

SpecListing == InitRegistered /\ [][ListingNext(1) \/ Tick]_vars

\* the same with the issue listings served by the facade of src/core/cosmos.js
CoreListingNext(r) ==
  \/ \E auth \in tokens, body \in NewProjectBodies : CreateProject(r, auth, body)
  \/ \E auth \in tokens, projectId \in ProjectParams, body \in NewIssueBodies :
       CreateIssue(r, auth, projectId, body)
  \/ CreateIssueAdd(r)
  \/ \E auth \in tokens, projectId \in ProjectParams, issueId \in IssueParams,
        body \in CommentBodies : CreateComment(r, auth, projectId, issueId, body)
  \/ CreateCommentAdd(r)
  \/ \E auth \in tokens : GetIssueListCore(r, auth)
  \/ \E auth \in tokens, projectId \in ProjectParams :
       GetIssueListForProjectCore(r, auth, projectId)

SpecCoreListing == InitRegistered /\ [][CoreListingNext(1) \/ Tick]_vars

\* every handler that writes a User, Project or Issue document, one request at a
\* time, with at most MaxPerKind documents per container
WritesNext(r) ==
  \/ Cardinality(users) < MaxPerKind /\ \E raw \in RegisterBodies : Register(r, raw)
  \/ RegisterAdd(r)
  \/ \E raw \in LoginBodies : Login(r, raw)
  \/ LoginReplace(r)
  \/ \E auth \in tokens, userData \in UpdateBodies : UpdateMe(r, auth, userData)
  \/ UpdateMeReplace(r)
  \/ Cardinality(projects) < MaxPerKind
       /\ \E auth \in tokens, body \in NewProjectBodies : CreateProject(r, auth, body)
  \/ \E auth \in tokens, projectId \in ProjectParams, body \in ProjectUpdates :
       UpdateProject(r, auth, projectId, body)
  \/ UpdateProjectReplace(r)
  \/ Cardinality(issues) < MaxPerKind
       /\ \E auth \in tokens, projectId \in ProjectParams, body \in NewIssueBodies :
            CreateIssue(r, auth, projectId, body)
  \/ CreateIssueAdd(r)
  \/ \E auth \in tokens, projectId \in ProjectParams, issueId \in IssueParams,
        body \in IssueUpdates : UpdateIssue(r, auth, projectId, issueId, body)
  \/ UpdateIssueReplace(r)

SpecWrites == Init /\ [][WritesNext(1) \/ Tick]_vars

\* project create and delete racing with issue create on every slot
NestedNext(r) ==
  \/ Cardinality(projects) < MaxPerKind
       /\ \E auth \in tokens, body \in NewProjectBodies : CreateProject(r, auth, body)
  \/ \E auth \in tokens, projectId \in ProjectParams : DeleteProject(r, auth, projectId)
  \/ DeleteProjectRemove(r)
  \/ Count("Issue") < MaxIssues
       /\ \E auth \in tokens, projectId \in ProjectParams, body \in NewIssueBodies :
            CreateIssue(r, auth, projectId, body)
  \/ CreateIssueAdd(r)

SpecNested == InitRegistered /\ [][(\E r \in Slots : NestedNext(r)) \/ Tick]_vars

\* projects, their issues, and the requests that address one issue, one request
\* at a time
ScopedNext(r) ==
  \/ Cardinality(projects) < MaxProjects
       /\ \E auth \in tokens, body \in NewProjectBodies : CreateProject(r, auth, body)
  \/ Count("Issue") < MaxIssues
       /\ \E auth \in tokens, projectId \in ProjectParams, body \in NewIssueBodies :
            CreateIssue(r, auth, projectId, body)
  \/ CreateIssueAdd(r)
  \/ \E auth \in tokens, projectId \in ProjectParams, issueId \in IssueParams :
       GetIssue(r, auth, projectId, issueId)
  \/ \E auth \in tokens, projectId \in ProjectParams, issueId \in IssueParams,
        body \in IssueUpdates : UpdateIssue(r, auth, projectId, issueId, body)
  \/ UpdateIssueReplace(r)
  \/ \E auth \in tokens, projectId \in ProjectParams, issueId \in IssueParams :
       DeleteIssue(r, auth, projectId, issueId)
  \/ DeleteIssueRemove(r)

SpecScoped == InitRegistered /\ [][ScopedNext(1) \/ Tick]_vars

\* two users who create and update a project and an issue, one request at a time
AuditNext(r) ==
  \/ Cardinality(users) < MaxUsers /\ \E raw \in RegisterBodies : Register(r, raw)
  \/ RegisterAdd(r)
  \/ Cardinality(projects) < MaxPerKind
       /\ \E auth \in tokens, body \in NewProjectBodies : CreateProject(r, auth, body)
  \/ \E auth \in tokens, projectId \in ProjectParams, body \in ProjectUpdates :
       UpdateProject(r, auth, projectId, body)
  \/ UpdateProjectReplace(r)
  \/ Cardinality(issues) < MaxPerKind
       /\ \E auth \in tokens, projectId \in ProjectParams, body \in NewIssueBodies :
            CreateIssue(r, auth, projectId, body)
  \/ CreateIssueAdd(r)
  \/ \E auth \in tokens, projectId \in ProjectParams, issueId \in IssueParams,
        body \in IssueUpdates : UpdateIssue(r, auth, projectId, issueId, body)
  \/ UpdateIssueReplace(r)

SpecAudit == Init /\ [][AuditNext(1) \/ Tick]_vars

\* two users and their self-updates, one request at a time
SelfUpdateNext(r) ==
  \/ Cardinality(users) < MaxUsers /\ \E raw \in RegisterBodies : Register(r, raw)
  \/ RegisterAdd(r)
  \/ \E auth \in tokens, userData \in UpdateBodies \cup EmailUpdateBodies :
       UpdateMe(r, auth, userData)
  \/ UpdateMeReplace(r)

SpecSelfUpdate == Init /\ [][SelfUpdateNext(1) \/ Tick]_vars

\* the process from the call of connect(), then the auth router
InitStartup ==
  /\ users = {}
  /\ projects = {}
  /\ issues = {}
  /\ tokens = {}
  /\ nextId = 0
  /\ now = 0
  /\ pc = [r \in Slots |-> "idle"]
  /\ loc = [r \in Slots |-> NoLocals]
  /\ res = [r \in Slots |-> NoResponse]
  /\ writes = [r \in Slots |-> 0]
  /\ boot = Booting

StartupNext ==
  \/ ConnectProceed
  \/ \E message \in ConnectErrors : ConnectFail(message)
  \/ Listen
  \/ AuthNext(1)
  \/ Tick

SpecStartup == InitStartup /\ [][StartupNext]_vars

\* a project, an issue and delete requests for both, on every slot
DeletesNext(r) ==
  \/ Cardinality(projects) < MaxPerKind
       /\ \E auth \in tokens, body \in NewProjectBodies : CreateProject(r, auth, body)
  \/ Count("Issue") < MaxPerKind
       /\ \E auth \in tokens, projectId \in ProjectParams, body \in NewIssueBodies :
            CreateIssue(r, auth, projectId, body)
  \/ CreateIssueAdd(r)
  \/ \E auth \in tokens, projectId \in ProjectParams : DeleteProject(r, auth, projectId)
  \/ DeleteProjectRemove(r)
  \/ \E auth \in tokens, projectId \in ProjectParams, issueId \in IssueParams :
       DeleteIssue(r, auth, projectId, issueId)
  \/ DeleteIssueRemove(r)

SpecDeletes == InitRegistered /\ [][(\E r \in Slots : DeletesNext(r)) \/ Tick]_vars

\* register requests on every slot
RegisterRaceNext(r) ==
  \/ \E raw \in RegisterBodies : Register(r, raw)
  \/ RegisterAdd(r)

SpecRegisterRace == Init /\ [][(\E r \in Slots : RegisterRaceNext(r)) \/ Tick]_vars

\* logins and updates of one user and one project, on every slot
StaleNext(r) ==
  \/ \E raw \in LoginBodies : Login(r, raw)
  \/ LoginReplace(r)
  \/ \E auth \in tokens, userData \in UpdateBodies : UpdateMe(r, auth, userData)
  \/ UpdateMeReplace(r)
  \/ Cardinality(projects) < MaxPerKind
       /\ \E auth \in tokens, body \in NewProjectBodies : CreateProject(r, auth, body)
  \/ \E auth \in tokens, projectId \in ProjectParams, body \in ProjectUpdates :
       UpdateProject(r, auth, projectId, body)
  \/ UpdateProjectReplace(r)

SpecStale == InitRegistered /\ [][(\E r \in Slots : StaleNext(r)) \/ Tick]_vars

\* the update requests of one user, one project and one issue
UpdatesNext(r) ==
  \/ \E auth \in tokens, userData \in UpdateBodies : UpdateMe(r, auth, userData)
  \/ UpdateMeReplace(r)
  \/ \E auth \in tokens, projectId \in ProjectParams, body \in ProjectUpdates :
       UpdateProject(r, auth, projectId, body)
  \/ UpdateProjectReplace(r)
  \/ \E auth \in tokens, projectId \in ProjectParams, issueId \in IssueParams,
        body \in IssueUpdates : UpdateIssue(r, auth, projectId, issueId, body)
  \/ UpdateIssueReplace(r)

\* the requests that create and remove the project and the issue
RemovalsNext(r) ==
  \/ Cardinality(projects) < MaxPerKind
       /\ \E auth \in tokens, body \in NewProjectBodies : CreateProject(r, auth, body)
  \/ \E auth \in tokens, projectId \in ProjectParams : DeleteProject(r, auth, projectId)
  \/ DeleteProjectRemove(r)
  \/ Count("Issue") < MaxPerKind
       /\ \E auth \in tokens, projectId \in ProjectParams, body \in NewIssueBodies :
            CreateIssue(r, auth, projectId, body)
  \/ CreateIssueAdd(r)
  \/ \E auth \in tokens, projectId \in ProjectParams, issueId \in IssueParams :
       DeleteIssue(r, auth, projectId, issueId)
  \/ DeleteIssueRemove(r)

\* updates on slot 1 racing with removals on slot 2 and with Users.remove, all
\* within one instant of the clock
SpecRemoved ==
  InitRegistered /\ [][\/ UpdatesNext(1)
                       \/ RemovalsNext(2)
                       \/ \E user \in users : RemoveUser(user.userId)]_vars

----------------------------------------------------------------------------
(* Properties *)

Ids(container) == {d.id : d \in container}

\* the documents a step adds under an id the container did not hold
Added(before, after) == {d \in after : d.id \notin Ids(before)}

\* slot r was suspended at label and has now responded with status
Responded(r, label, status) ==
  /\ pc[r] = label
  /\ pc'[r] = "idle"
  /\ res'[r].status = status

\* C1: a register request whose normalised email is the email of a stored User
\* is refused with 400 and writes nothing
C1_Refused ==
  \A r \in Slots, raw \in RegisterBodies :
    (Register(r, raw) /\ \E u \in users : u.email = trim(lowercase(raw.email)))
      => /\ res'[r].status = 400
         /\ pc'[r] = "idle"
         /\ users' = users

\* C1: a registration that succeeds leaves exactly one User with its email
C1_Registered ==
  \A r \in Slots :
    Responded(r, "register_add", 200)
      => Cardinality({u \in users' : u.email = trim(lowercase(loc[r].email))}) = 1

\* C1: no two User documents share an email
C1_OnePerEmail == \A u, v \in users : u.email = v.email => u = v

\* C1: with register requests served one at a time, a register request whose
\* email, lowercased and trimmed, is the email of a stored User is refused with
\* status 400 and writes no document, and there is exactly one User document per
\* registered email.
C1_RegisterDuplicateRefused ==
  [][C1_Refused /\ C1_Registered]_vars /\ []C1_OnePerEmail

\* C1: the spelling " A@X " was refused because a@x is registered, next to a
\* second User
C1_Witness ==
  /\ loc[1].op = "register"
  /\ res[1].status = 400
  /\ res[1].email = <<"a", "@", "x">>
  /\ Cardinality(users) = 2

\* C2: a create-Issue request whose project is absent at the point read ends
\* with 404 and adds nothing
C2_Refused ==
  \A r \in Slots, auth \in tokens, projectId \in ProjectParams, body \in NewIssueBodies :
    (CreateIssue(r, auth, projectId, body) /\ projectId \notin Ids(projects))
      => /\ res'[r].status = 404
         /\ pc'[r] = "idle"
         /\ issues' = issues

\* C2: an Issue document enters the container only from a slot whose point read
\* found the Project
C2_AddedAfterCheck ==
  \A d \in Added(issues, issues') :
    d.type = "Issue" =>
      \E r \in Slots :
        /\ pc[r] = "createIssue_add"
        /\ pc'[r] = "idle"
        /\ loc[r].found
        /\ loc[r].project.type = "Project"
        /\ loc[r].project.id = d.projectId
        /\ loc[r].issueId = d.id

\* C2: create Issue under projectId P ends with 404 and adds no document when
\* no Project P exists at the point read; an Issue document is added only after
\* the point read found the Project.
C2_CreateIssueNeedsProject == [][C2_Refused /\ C2_AddedAfterCheck]_vars

\* C2: a create-Issue request was refused with 404 while another request's
\* Issue, whose project has since been deleted, is stored
C2_Witness ==
  \E r \in Slots :
    /\ loc[r].op = "createIssue"
    /\ pc[r] = "idle"
    /\ ~loc[r].found
    /\ res[r].status = 404
    /\ \E d \in issues : d.type = "Issue" /\ d.projectId \notin Ids(projects)

\* C3: the delete step removes the Project document and nothing else
C3_OnlyProject ==
  \A r \in Slots :
    Responded(r, "deleteProject_remove", 200)
      => /\ issues' = issues
         /\ users' = users
         /\ projects' = {d \in projects : d.id # loc[r].projectId}
         /\ loc[r].projectId \in Ids(projects)

\* C3: the id of a deleted Project is never given to another Project
C3_NeverBack ==
  \A k \in 1..nextId :
    NanoId(k) \notin Ids(projects) => NanoId(k) \notin Ids(projects')

\* C3: a create-Issue request under an id that has documents but no Project
\* ends with 404
C3_CreateRefused ==
  \A r \in Slots, auth \in tokens, projectId \in ProjectParams, body \in NewIssueBodies :
    (/\ CreateIssue(r, auth, projectId, body)
     /\ projectId \notin Ids(projects)
     /\ projectId # NoId)
      => res'[r].status = 404 /\ issues' = issues

\* C3: delete Project P removes only the Project document, every Issue and
\* Comment with projectId P stays as it was, and a later create-Issue request
\* under P ends with 404.
C3_DeleteProjectNoCascade == [][C3_OnlyProject /\ C3_NeverBack /\ C3_CreateRefused]_vars

\* C3: create Issue was refused under a deleted project whose Issue and Comment
\* are still stored
C3_Witness ==
  /\ loc[1].op = "createIssue"
  /\ res[1].status = 404
  /\ loc[1].projectId \notin Ids(projects)
  /\ \E d \in issues : d.type = "Issue" /\ d.projectId = loc[1].projectId
  /\ \E d \in issues : d.type = "Comment" /\ d.projectId = loc[1].projectId

\* the fields an add derives for a Project or an Issue
DerivedKeys == {"id", "projectId", "issueId", "type", "_partitionKey", "createdOn", "createdBy"}

\* doc is input with the derived fields laid over it
InputPlus(doc, input, derived) ==
  /\ doc # Null
  /\ DOMAIN doc = DOMAIN input \cup DOMAIN derived
  /\ \A k \in DOMAIN derived : doc[k] = derived[k]
  /\ \A k \in DOMAIN input \ DOMAIN derived : doc[k] = input[k]

\* C4: the User read back by userId is the document passed to Users.add
C4_User ==
  \A r \in Slots :
    Responded(r, "register_add", 200)
      => InputPlus(Users_getById(users', loc[r].userId), loc[r].newUser,
                   [id |-> loc[r].userId, type |-> "User"])

\* C4: the Project read back by projectId is the request body plus id, projectId,
\* type, createdOn and createdBy
C4_Project ==
  \A r \in Slots, auth \in tokens, body \in NewProjectBodies :
    (CreateProject(r, auth, body) /\ res'[r].status = 200)
      => InputPlus(Projects_getById(projects', res'[r].id), body,
                   [id |-> res'[r].id, projectId |-> res'[r].id, type |-> "Project",
                    createdOn |-> now, createdBy |-> Stamp(auth)])

\* C4: the Issue read back by projectId and issueId is the request body plus id,
\* issueId, projectId, type, _partitionKey, createdOn and createdBy
C4_Issue ==
  \A r \in Slots :
    Responded(r, "createIssue_add", 200)
      => InputPlus(Issues_getById(issues', loc[r].projectId, loc[r].issueId), loc[r].body,
                   [id |-> loc[r].issueId, issueId |-> loc[r].issueId,
                    projectId |-> loc[r].projectId, type |-> "Issue",
                    _partitionKey |-> loc[r].projectId \o ";" \o loc[r].issueId,
                    createdOn |-> loc[r].newIssue.createdOn,
                    createdBy |-> Stamp(loc[r].auth)])

\* C4: after add of a User, Project or Issue succeeds, getById with the
\* identifiers of that document returns the document passed to add plus the
\* derived fields id, type, _partitionKey (Issue) and createdOn/createdBy.
C4_AddGetByIdRoundTrip == [][C4_User /\ C4_Project /\ C4_Issue]_vars

\* C4: an Issue was created and can be read back under its two identifiers
C4_Witness ==
  /\ loc[1].op = "createIssue"
  /\ res[1].status = 200
  /\ Issues_getById(issues, loc[1].projectId, loc[1].issueId) = res[1].resource
  /\ Projects_getById(projects, loc[1].projectId) # Null
  /\ users # {}

\* the stamps an update sets
UpdateStamps == {"lastUpdatedOn", "lastUpdatedBy"}

\* every field of read outside named has kept its value in stored, and stored
\* has no field besides those of read and named
Preserved(stored, read, named) ==
  /\ stored # Null
  /\ \A k \in DOMAIN read \ named : k \in DOMAIN stored /\ stored[k] = read[k]
  /\ DOMAIN stored \subseteq DOMAIN read \cup named

\* C5 for Project and Issue: the fields outside the body and the stamps are kept
C5_Tracker ==
  \A r \in Slots :
    /\ Responded(r, "updateProject_replace", 200)
         => Preserved(Projects_getById(projects', loc[r].projectId), loc[r].read,
                      DOMAIN loc[r].data \cup UpdateStamps)
    /\ Responded(r, "updateIssue_replace", 200)
         => Preserved(Issues_getById(issues', loc[r].projectId, loc[r].issueId),
                      loc[r].read, DOMAIN loc[r].data \cup UpdateStamps)

\* C5 as stated for User: the fields the body does not name are kept
C5_UserAsStated ==
  \A r \in Slots :
    Responded(r, "updateMe_replace", 200)
      => Preserved(Users_getById(users', loc[r].userId), loc[r].read, DOMAIN loc[r].data)

\* the stored fields a body of PUT /auth/me names: password names passwordHash
NamedByUserBody(data) ==
  (DOMAIN data \ {"password"})
    \cup (IF "password" \in DOMAIN data THEN {"passwordHash"} ELSE {})

\* C5 for User, with password read as naming passwordHash
C5_User ==
  \A r \in Slots :
    Responded(r, "updateMe_replace", 200)
      => Preserved(Users_getById(users', loc[r].userId), loc[r].read,
                   NamedByUserBody(loc[r].data))

\* C5 (as stated): after an update of a Project, Issue or User succeeds, every
\* field of the document the handler read that the body does not name and that
\* is not a stamp of the update has kept its value.
C5_AsStated == [][C5_Tracker /\ C5_UserAsStated]_vars

\* C5 (amended): after an update of a Project, Issue or User succeeds, every
\* field of the document the handler read that the body does not name and that
\* is not a stamp of the update has kept its value, where a password in the body
\* of the user self-update counts as naming the stored passwordHash.
C5_PartialUpdatePreserves == [][C5_Tracker /\ C5_User]_vars

\* C5: a self-update that names only password went through and left the names,
\* the email and the dates of the User as they were
C5_Witness ==
  /\ loc[1].op = "updateMe"
  /\ res[1].status = 200
  /\ DOMAIN loc[1].data = {"password"}
  /\ \E u \in users :
       /\ u.id = loc[1].userId
       /\ u.passwordHash # loc[1].read.passwordHash
       /\ u.givenName = loc[1].read.givenName
       /\ u.email = loc[1].read.email

\* C6: every document of the Issues container is an Issue or a Comment filed
\* under projectId;issueId
C6_Keyed ==
  \A d \in issues :
    /\ d.type \in {"Issue", "Comment"}
    /\ d._partitionKey = d.projectId \o ";" \o d.issueId

\* C6: no step changes the key fields of a stored document
C6_KeyKept ==
  \A d \in issues, e \in issues' :
    e.id = d.id => /\ e._partitionKey = d._partitionKey
                   /\ e.projectId = d.projectId
                   /\ e.issueId = d.issueId

\* C6: a new Comment carries the key of the Issue its handler read
C6_CommentWithIssue ==
  \A r \in Slots :
    Responded(r, "createComment_add", 200)
      => \E c \in Added(issues, issues') :
           /\ c.type = "Comment"
           /\ loc[r].issue.type = "Issue"
           /\ c._partitionKey = loc[r].issue._partitionKey

\* C6: in every reachable state every Issue and Comment document has
\* _partitionKey = projectId ";" issueId; no update changes _partitionKey,
\* projectId or issueId; a Comment has the _partitionKey of the Issue it was
\* created under.
C6_PartitionKeyComposite == []C6_Keyed /\ [][C6_KeyKept /\ C6_CommentWithIssue]_vars

\* C6: an updated Issue and a Comment created under it share one partition key
C6_Witness ==
  \E i, c \in issues :
    /\ i.type = "Issue"
    /\ c.type = "Comment"
    /\ "lastUpdatedOn" \in DOMAIN i
    /\ c.issueId = i.id
    /\ c._partitionKey = i._partitionKey

\* the id and type of every document of a container
Identities(container) == {<<d.id, d.type>> : d \in container}

\* C7: a replace leaves every container with the ids and types it had
C7_ReplaceKeeps ==
  \A r \in Slots :
    (/\ pc[r] \in {"updateProject_replace", "updateIssue_replace", "updateMe_replace",
                   "login_replace"}
     /\ pc'[r] = "idle")
      => /\ Identities(users') = Identities(users)
         /\ Identities(projects') = Identities(projects)
         /\ Identities(issues') = Identities(issues)

\* C7: a document that is still stored after a step has the type it had
C7_TypeKept ==
  /\ \A d \in users, e \in users' : e.id = d.id => e.type = d.type
  /\ \A d \in projects, e \in projects' : e.id = d.id => e.type = d.type
  /\ \A d \in issues, e \in issues' : e.id = d.id => e.type = d.type

\* C7: every stored document keeps the id and type set at creation while it is
\* stored: project update, issue update, user self-update and login, with bodies
\* limited to the fields of their schemas, write documents of the same id and type.
C7_IdAndTypeImmutable == [][C7_ReplaceKeeps /\ C7_TypeKept]_vars

\* C7: a User, a Project and an Issue have each been replaced by an update
C7_Witness ==
  /\ \E u \in users : u.passwordHash = hash("password2") /\ u.type = "User"
  /\ \E d \in projects : "lastUpdatedOn" \in DOMAIN d /\ d.type = "Project"
  /\ \E d \in issues : "lastUpdatedOn" \in DOMAIN d /\ d.type = "Issue"

\* the Comment documents of issue issueId of project projectId
CommentsOf(projectId, issueId) ==
  {d \in issues : d.type = "Comment" /\ d.projectId = projectId /\ d.issueId = issueId}

\* list holds each document of S once, oldest createdOn first
IsOldestFirstListOf(list, S) ==
  /\ {list[i] : i \in DOMAIN list} = S
  /\ Len(list) = Cardinality(S)
  /\ \A i, j \in DOMAIN list : i < j => list[i].createdOn <= list[j].createdOn

\* C8: listing the Comments of issue X of project P answers with exactly the
\* stored documents of type Comment with projectId P and issueId X, without the
\* Issue document and without Comments of other issues, ordered by createdOn
\* ascending.
C8_CommentListExactAndOrdered ==
  [][\A r \in Slots, auth \in tokens, projectId \in ProjectParams, issueId \in IssueParams :
       GetCommentListForIssue(r, auth, projectId, issueId)
         => /\ res'[r].status = 200
            /\ IsOldestFirstListOf(res'[r].list, CommentsOf(projectId, issueId))]_vars

\* C8: a listing answered with two Comments written at different times, while
\* the issue and a Comment of another issue are stored too
C8_Witness ==
  /\ loc[1].op = "getCommentListForIssue"
  /\ res[1].status = 200
  /\ Len(res[1].list) = 2
  /\ res[1].list[1].createdOn < res[1].list[2].createdOn
  /\ \E d \in issues : d.type = "Issue" /\ d.id = loc[1].issueId

WrongProject(projectId, issueId) ==
  \E d \in issues : d.type = "Issue" /\ d.id = issueId /\ d.projectId # projectId

\* the request of slot r ended with 404 and no container changed
NotFoundNothingChanged(r) ==
  /\ res'[r].status = 404
  /\ pc'[r] = "idle"
  /\ UNCHANGED <<users, projects, issues>>

\* C10: read, update and delete of an Issue address it by issueId and
\* projectId ";" issueId: a request that names a stored issueId with a projectId
\* other than the Issue's ends with 404 and changes no stored document.
C10_WrongProjectNotFound ==
  [][\A r \in Slots, auth \in tokens, projectId \in ProjectParams, issueId \in IssueParams :
       WrongProject(projectId, issueId) =>
         /\ GetIssue(r, auth, projectId, issueId) => NotFoundNothingChanged(r)
         /\ \A body \in IssueUpdates :
              UpdateIssue(r, auth, projectId, issueId, body) => NotFoundNothingChanged(r)
         /\ DeleteIssue(r, auth, projectId, issueId) => NotFoundNothingChanged(r)]_vars

\* C10: an update that named a stored Issue under another stored project was
\* answered with 404
C10_Witness ==
  /\ loc[1].op = "updateIssue"
  /\ res[1].status = 404
  /\ loc[1].projectId \in Ids(projects)
  /\ WrongProject(loc[1].projectId, loc[1].issueId)

\* the point read (issueId, projectId ";" issueId) finds an Issue document
IssueStored(projectId, issueId) ==
  \E d \in issues : /\ d.id = issueId
                    /\ d._partitionKey = projectId \o ";" \o issueId

\* C11: a create-Comment request whose Issue is absent at the point read ends
\* with 404 and adds nothing
C11_Refused ==
  \A r \in Slots, auth \in tokens, projectId \in ProjectParams, issueId \in IssueParams,
     body \in CommentBodies :
    (CreateComment(r, auth, projectId, issueId, body) /\ ~IssueStored(projectId, issueId))
      => /\ res'[r].status = 404
         /\ pc'[r] = "idle"
         /\ UNCHANGED <<users, projects, issues>>

\* C11: a Comment document enters the container only from a slot whose point
\* read found the Issue, and it carries the projectId and issueId of the request
C11_AddedAfterCheck ==
  \A d \in Added(issues, issues') :
    d.type = "Comment" =>
      \E r \in Slots :
        /\ pc[r] = "createComment_add"
        /\ pc'[r] = "idle"
        /\ loc[r].found
        /\ loc[r].issue.type = "Issue"
        /\ loc[r].issue.id = loc[r].issueId
        /\ loc[r].issue.projectId = loc[r].projectId
        /\ d.projectId = loc[r].projectId
        /\ d.issueId = loc[r].issueId
        /\ d.id = loc[r].commentId

\* C11: create Comment under project P and issue X ends with 404 and adds no
\* document when the point read (X, P ";" X) finds no Issue; a Comment document
\* is added only after the point read found the Issue, and it carries projectId
\* P and issueId X.
C11_CreateCommentNeedsIssue == [][C11_Refused /\ C11_AddedAfterCheck]_vars

\* C11: a create-Comment request was refused with 404 for an issue that was
\* deleted, while a Comment created under it earlier is stored
C11_Witness ==
  /\ loc[1].op = "createComment"
  /\ ~loc[1].found
  /\ res[1].status = 404
  /\ loc[1].issueId # NoId
  /\ loc[1].issueId \notin Ids(issues)
  /\ \E d \in issues : d.type = "Comment" /\ d.issueId = loc[1].issueId

\* the requester as an audit stamp records them
Requester(auth) == [userId |-> auth.userId, email |-> auth.email]

\* C12: creation stamps the document with the time and the requester of the
\* create request
C12_CreatedSet ==
  \A r \in Slots, auth \in tokens :
    /\ \A body \in NewProjectBodies :
         (CreateProject(r, auth, body) /\ res'[r].status = 200)
           => \E d \in Added(projects, projects') :
                d.createdOn = now /\ d.createdBy = Requester(auth)
    /\ \A projectId \in ProjectParams, body \in NewIssueBodies :
         (CreateIssue(r, auth, projectId, body) /\ pc'[r] = "createIssue_add")
           => /\ loc'[r].newIssue.createdOn = now
              /\ loc'[r].newIssue.createdBy = Requester(auth)
    /\ Responded(r, "createIssue_add", 200)
         => \E d \in Added(issues, issues') :
              /\ d.createdOn = loc[r].newIssue.createdOn
              /\ d.createdBy = loc[r].newIssue.createdBy

\* C12: a stored Project or Issue keeps its createdOn and createdBy
C12_CreatedKept ==
  /\ \A d \in projects, e \in projects' :
       e.id = d.id => e.createdOn = d.createdOn /\ e.createdBy = d.createdBy
  /\ \A d \in issues, e \in issues' :
       e.id = d.id => e.createdOn = d.createdOn /\ e.createdBy = d.createdBy

\* C12: an update takes its stamps from the clock and the requester when the
\* handler runs, and the replace stores them
C12_UpdateStamped ==
  \A r \in Slots :
    /\ \A auth \in tokens, projectId \in ProjectParams, body \in ProjectUpdates :
         (UpdateProject(r, auth, projectId, body) /\ pc'[r] = "updateProject_replace")
           => /\ loc'[r].project.lastUpdatedOn = now
              /\ loc'[r].project.lastUpdatedBy = Requester(auth)
    /\ \A auth \in tokens, projectId \in ProjectParams, issueId \in IssueParams,
          body \in IssueUpdates :
         (UpdateIssue(r, auth, projectId, issueId, body) /\ pc'[r] = "updateIssue_replace")
           => /\ loc'[r].issue.lastUpdatedOn = now
              /\ loc'[r].issue.lastUpdatedBy = Requester(auth)
    /\ Responded(r, "updateProject_replace", 200)
         => \E d \in projects' :
              /\ d.id = loc[r].projectId
              /\ d.lastUpdatedOn = loc[r].project.lastUpdatedOn
              /\ d.lastUpdatedBy = Requester(loc[r].auth)
    /\ Responded(r, "updateIssue_replace", 200)
         => \E d \in issues' :
              /\ d.id = loc[r].issueId
              /\ d.lastUpdatedOn = loc[r].issue.lastUpdatedOn
              /\ d.lastUpdatedBy = Requester(loc[r].auth)

\* C12: createdOn and createdBy of a Project or Issue are written at creation
\* and keep their values through every update; every successful update sets
\* lastUpdatedOn and lastUpdatedBy to the time and the requester of that update.
C12_AuditStamps == [][C12_CreatedSet /\ C12_CreatedKept /\ C12_UpdateStamped]_vars

\* C12: a Project created by one user was later updated by another, and an
\* Issue has been updated too
C12_Witness ==
  /\ \E d \in projects :
       /\ "lastUpdatedOn" \in DOMAIN d
       /\ d.createdOn < d.lastUpdatedOn
       /\ d.createdBy.userId # d.lastUpdatedBy.userId
  /\ \E d \in issues : "lastUpdatedOn" \in DOMAIN d

\* another User than userId holds email
HeldByOther(userId, email) == \E u \in users : u.email = email /\ u.id # userId

\* C13: a self-update naming an email another User holds is refused with 400 and
\* leaves the store as it was
C13_TakenRefused ==
  \A r \in Slots, auth \in tokens, userData \in EmailUpdateBodies :
    (UpdateMe(r, auth, userData) /\ HeldByOther(auth.userId, userData.email))
      => /\ res'[r].status = 400
         /\ pc'[r] = "idle"
         /\ users' = users

\* C13: a self-update naming an unused email, or the requester's own, is not
\* refused: the handler goes on to write the User with that email
C13_FreeAccepted ==
  \A r \in Slots, auth \in tokens, userData \in EmailUpdateBodies :
    (/\ UpdateMe(r, auth, userData)
     /\ auth.userId \in Ids(users)
     /\ ~HeldByOther(auth.userId, userData.email))
      => /\ pc'[r] = "updateMe_replace"
         /\ loc'[r].user.email = userData.email

\* C13: with requests served one at a time, a self-update that names an email
\* held by another User is refused with 400 and changes nothing, a self-update
\* that names an unused email or the requester's own is accepted, and no two
\* Users share an email.
C13_SelfUpdateEmail ==
  [][C13_TakenRefused /\ C13_FreeAccepted]_vars /\ []C1_OnePerEmail

\* C14: a listening process holds every handle of connect() and no error
C14_ListeningConnected ==
  boot.listening => boot.handles = Handles /\ boot.error = ""

\* C14: a process whose connect() failed holds the wrapped error and does not listen
C14_FailedWrapped ==
  boot.phase = "failed"
    => /\ ~boot.listening
       /\ \E message \in ConnectErrors :
            boot.error = "Failed to connect to Cosmos DB: " \o message

\* C14: listening starts from a returned connect(), a failed process stays as it
\* is, and requests are handled by a listening process only
C14_Order ==
  /\ (boot'.listening /\ ~boot.listening)
       => boot.phase = "connected" /\ boot.handles = Handles
  /\ boot.phase = "failed" => UNCHANGED <<boot, pc, res, users, projects, issues>>
  /\ pc' # pc => boot.listening

\* C14: the server starts listening only after connect() has returned the
\* handles of the database and the Users, Projects and Issues containers; when a
\* step of connect() fails the error is rethrown as 'Failed to connect to Cosmos
\* DB: ...' and the server never starts listening.
C14_StartupOrdering ==
  []C14_ListeningConnected /\ []C14_FailedWrapped /\ [][C14_Order]_vars

\* C14: connect() failed at the Issues container, after the database and two
\* containers were obtained, and the server does not listen
C14_Witness ==
  /\ boot.phase = "failed"
  /\ boot.handles = Handles \ {"issuesContainer"}
  /\ boot.error = "Failed to connect to Cosmos DB: ECONNREFUSED"
  /\ ~boot.listening

\* C15: a delete that reports the removal has removed a stored document
C15_RemovalReported ==
  \A r \in Slots :
    /\ Responded(r, "deleteProject_remove", 200)
         => /\ loc[r].projectId \in Ids(projects)
            /\ projects' = {d \in projects : d.id # loc[r].projectId}
    /\ Responded(r, "deleteIssue_remove", 200)
         => /\ loc[r].issueId \in Ids(issues)
            /\ issues' = {d \in issues : d.id # loc[r].issueId}

\* C15: a delete whose check finds the entity absent reports 404
C15_AbsentAtCheck ==
  \A r \in Slots, auth \in tokens, projectId \in ProjectParams :
    /\ (DeleteProject(r, auth, projectId) /\ projectId \notin Ids(projects))
         => res'[r].status = 404 /\ pc'[r] = "idle"
    /\ \A issueId \in IssueParams :
         (DeleteIssue(r, auth, projectId, issueId) /\ ~IssueStored(projectId, issueId))
           => res'[r].status = 404 /\ pc'[r] = "idle"

\* C15: ids are handed out once: a new document has the id drawn last
C15_FreshIds ==
  /\ nextId' >= nextId
  /\ \A d \in Added(projects, projects') : d.id = NanoId(nextId') /\ nextId' = nextId + 1
  /\ \A r \in Slots :
       (pc[r] = "idle" /\ pc'[r] = "createIssue_add")
         => loc'[r].issueId = NanoId(nextId') /\ nextId' = nextId + 1
  /\ \A d \in Added(issues, issues') :
       \E r \in Slots : pc[r] = "createIssue_add" /\ d.id = loc[r].issueId

\* C15 as stated: no delete request ends in the store's error
C15_NoStoreError ==
  \A r \in Slots :
    (pc[r] \in {"deleteProject_remove", "deleteIssue_remove"} /\ pc'[r] = "idle")
      => res'[r].status \in {200, 404}

\* C15: a delete whose check found the entity and whose remove finds it gone
\* ends in the store's error, answered with 500, and changes nothing
C15_GoneAtRemove ==
  \A r \in Slots :
    /\ (pc[r] = "deleteProject_remove" /\ pc'[r] = "idle"
          /\ loc[r].projectId \notin Ids(projects))
         => res'[r].status = 500 /\ UNCHANGED <<users, projects, issues>>
    /\ (pc[r] = "deleteIssue_remove" /\ pc'[r] = "idle"
          /\ loc[r].issueId \notin Ids(issues))
         => res'[r].status = 500 /\ UNCHANGED <<users, projects, issues>>

\* C15 (as stated): of the delete requests aimed at one Project or Issue, in any
\* interleaving, exactly one reports the removal, every other reports 404, and
\* none ends in the store's Not-Found error.
C15_AsStated ==
  [][C15_RemovalReported /\ C15_AbsentAtCheck /\ C15_FreshIds /\ C15_NoStoreError]_vars

\* C15 (amended): of the delete requests aimed at one Project or Issue, at most
\* one reports the removal; one whose existence check runs after the removal
\* reports 404; one whose check found the entity but whose remove runs after
\* another delete removed it ends in the store's Not-Found error, answered 500.
C15_DeleteOnce ==
  [][C15_RemovalReported /\ C15_AbsentAtCheck /\ C15_FreshIds /\ C15_GoneAtRemove]_vars

\* C15: two overlapping deletes of one Issue: one reported the removal, the
\* other was answered with the store's error
C15_Witness ==
  /\ loc[1].op = "deleteIssue"
  /\ loc[2].op = "deleteIssue"
  /\ loc[1].issueId = loc[2].issueId
  /\ loc[1].projectId = loc[2].projectId
  /\ res[1].status = 200
  /\ res[2].status = 500
  /\ res[2].message = "NotFound"

\* C16: the lookup passes while no stored User has the email, also when another
\* request that passed the same lookup has not inserted yet
C16_LookupPasses ==
  \A r \in Slots, raw \in RegisterBodies :
    (Register(r, raw) /\ ~\E u \in users : u.email = trim(lowercase(raw.email)))
      => /\ pc'[r] = "register_add"
         /\ users' = users

\* C16: the insert of a request that passed the lookup succeeds whatever emails
\* are stored by then
C16_InsertSucceeds ==
  \A r \in Slots :
    (pc[r] = "register_add" /\ pc'[r] = "idle")
      => /\ res'[r].status = 200
         /\ users' = users \cup {loc[r].newUser}
         /\ loc[r].newUser.id \notin Ids(users)

\* C16: two overlapping register requests with one email can both pass the
\* lookup before either inserts, and both inserts then succeed: nothing at the
\* insert refuses an email that is already stored.
C16_RegisterRace == [][C16_LookupPasses /\ C16_InsertSucceeds]_vars

\* C16: two User documents with different ids share an email and both register
\* requests were answered with success
C16_Witness ==
  /\ loc[1].op = "register" /\ res[1].status = 200
  /\ loc[2].op = "register" /\ res[2].status = 200
  /\ loc[1].email = loc[2].email
  /\ \E u, v \in users :
       /\ u.id = loc[1].userId
       /\ v.id = loc[2].userId
       /\ u.id # v.id
       /\ u.email = v.email

\* C17: the check of a nested create writes nothing
C17_CheckOnly ==
  \A r \in Slots :
    (pc[r] = "idle" /\ pc'[r] = "createIssue_add")
      => /\ issues' = issues
         /\ loc'[r].projectId \in Ids(projects)

\* C17: the insert succeeds whether or not the Project is still stored
C17_InsertUnchecked ==
  \A r \in Slots :
    (pc[r] = "createIssue_add" /\ pc'[r] = "idle")
      => /\ res'[r].status = 200
         /\ res'[r].resource \in issues'
         /\ res'[r].resource.projectId = loc[r].projectId
         /\ Added(issues, issues') = {res'[r].resource}

\* C17: the existence check and the insert of a create-Issue request are two
\* steps; when a delete of the Project runs between them the insert still
\* succeeds and the request reports success, leaving an Issue whose projectId
\* names no Project.
C17_NestedCreateRace == [][C17_CheckOnly /\ C17_InsertUnchecked]_vars

\* C17: a create-Issue request that found its Project reported success, the
\* other slot's delete of that Project reported the removal, and the Issue is
\* stored under a projectId that names no Project
C17_Witness ==
  \E r, q \in Slots :
    /\ loc[r].op = "createIssue" /\ loc[r].found /\ res[r].status = 200
    /\ loc[q].op = "deleteProject" /\ res[q].status = 200
    /\ loc[q].projectId = loc[r].projectId
    /\ res[r].resource \in issues
    /\ loc[r].projectId \notin Ids(projects)

\* C18: a replace of a stored document succeeds and stores the whole document
\* of its writer, whether or not the stored document is still the one the
\* writer read
C18_StaleWriteStored ==
  \A r \in Slots :
    /\ (pc[r] = "updateMe_replace" /\ pc'[r] = "idle" /\ loc[r].userId \in Ids(users))
         => /\ res'[r].status = 200
            /\ Users_getById(users', loc[r].userId) = loc[r].user
            /\ Cardinality(users') = Cardinality(users)
    /\ (pc[r] = "updateProject_replace" /\ pc'[r] = "idle"
          /\ loc[r].projectId \in Ids(projects))
         => /\ res'[r].status = 200
            /\ Projects_getById(projects', loc[r].projectId) = loc[r].project
            /\ Cardinality(projects') = Cardinality(projects)

\* C18: the document a writer stores is the one it read with its own changes,
\* so it carries nothing another request wrote after that read
C18_BuiltFromRead ==
  \A r \in Slots :
    /\ pc'[r] = "updateMe_replace"
         => \A k \in DOMAIN loc'[r].read \ NamedByUserBody(loc'[r].data) :
              loc'[r].user[k] = loc'[r].read[k]
    /\ pc'[r] = "updateProject_replace"
         => \A k \in DOMAIN loc'[r].read \ (DOMAIN loc'[r].data \cup UpdateStamps) :
              loc'[r].project[k] = loc'[r].read[k]

\* C18: two updates of one document that both read before either writes both
\* succeed; the stored document is the whole document of the replace that ran
\* last, and what only the other request changed is lost: no version check
\* refuses the stale write.
C18_LastWriterWins == [][C18_StaleWriteStored /\ C18_BuiltFromRead]_vars

\* C18: two self-updates read the same User, one named givenName and the other
\* password, both reported success, and the stored User has the new password
\* with the old givenName
C18_Witness ==
  \E r, q \in Slots :
    /\ loc[r].op = "updateMe" /\ res[r].status = 200
    /\ loc[q].op = "updateMe" /\ res[q].status = 200
    /\ DOMAIN loc[r].data = {"givenName"}
    /\ DOMAIN loc[q].data = {"password"}
    /\ loc[r].read = loc[q].read
    /\ Users_getById(users, loc[q].userId) = loc[q].user
    /\ loc[q].user.givenName = loc[r].read.givenName
    /\ loc[q].user.givenName # loc[r].data.givenName

\* C20 as stated: login's write leaves every field but lastLoginOn as it was in
\* the store just before the write
C20_OnlyLastLoginOn ==
  \A r \in Slots :
    Responded(r, "login_replace", 200)
      => LET before == Users_getById(users, loc[r].userId)
             after == Users_getById(users', loc[r].userId)
         IN /\ DOMAIN after = DOMAIN before
            /\ \A k \in DOMAIN before \ {"lastLoginOn"} : after[k] = before[k]

\* C20: login's write stores the document login read, with lastLoginOn set to
\* the time of the write
C20_WritesWhatItRead ==
  \A r \in Slots :
    Responded(r, "login_replace", 200)
      => LET after == Users_getById(users', loc[r].userId)
         IN /\ DOMAIN after = DOMAIN loc[r].user
            /\ after.lastLoginOn = now
            /\ \A k \in DOMAIN after \ {"lastLoginOn"} : after[k] = loc[r].user[k]

\* C20: when the stored document is still the one login read, only lastLoginOn
\* changes
C20_UnlessOverlapped ==
  \A r \in Slots :
    (Responded(r, "login_replace", 200)
       /\ Users_getById(users, loc[r].userId) = loc[r].user)
      => LET before == Users_getById(users, loc[r].userId)
             after == Users_getById(users', loc[r].userId)
         IN \A k \in DOMAIN before \ {"lastLoginOn"} : after[k] = before[k]

\* C20 (as stated): a successful login changes only lastLoginOn of the stored
\* User; every other field keeps the value it had in the store just before
\* login's write, also when a self-update ran between login's read and write.
C20_AsStated == [][C20_OnlyLastLoginOn]_vars

\* C20 (amended): a successful login stores the document it read with
\* lastLoginOn set; every other field has the value login read, which is the
\* value in the store just before the write only when no self-update ran
\* between login's read and its write.
C20_LoginWritesItsRead == [][C20_WritesWhatItRead /\ C20_UnlessOverlapped]_vars

\* C20: a self-update that named givenName reported success between login's
\* read and write, login reported success, and the stored User has the
\* givenName login read
C20_Witness ==
  \E r, q \in Slots :
    /\ loc[r].op = "login" /\ res[r].status = 200
    /\ loc[q].op = "updateMe" /\ res[q].status = 200
    /\ "givenName" \in DOMAIN loc[q].data
    /\ loc[q].read = loc[r].user
    /\ \E u \in users :
         /\ u.id = loc[r].userId
         /\ u.givenName = loc[r].user.givenName
         /\ u.givenName # loc[q].data.givenName

\* C19: every request that has been answered had exactly one response write
\* attempted, also when its handler raised an error after sending, as
\* create-Project does.
C19_OneResponseWrite ==
  \A r \in Slots :
    /\ writes[r] <= 1
    /\ (pc[r] = "idle" /\ loc[r].op # "none") => writes[r] = 1

----------------------------------------------------------------------------
(* C21 *)

\* the ids handed out so far
Drawn == {NanoId(k) : k \in 1..nextId}

\* the ids a create request has drawn and not inserted yet
PendingIds ==
  {loc[r].issueId : r \in {s \in Slots : pc[s] = "createIssue_add"}}
    \cup {loc[r].commentId : r \in {s \in Slots : pc[s] = "createComment_add"}}
    \cup {loc[r].userId : r \in {s \in Slots : pc[s] = "register_add"}}

\* the ids handed out that container does not hold and no create is about to
\* insert: the ids of removed documents are among them
Gone(container) == (Drawn \ Ids(container)) \ PendingIds

\* C21: the id of a document a step removes is gone after the step
C21_RemovedIsGone ==
  /\ (Ids(projects) \ Ids(projects')) \subseteq Gone(projects)'
  /\ (Ids(issues) \ Ids(issues')) \subseteq Gone(issues)'
  /\ (Ids(users) \ Ids(users')) \subseteq Gone(users)'

\* C21: an id that is gone from a container stays gone
C21_GoneStaysGone ==
  /\ Gone(projects) \subseteq Gone(projects)'
  /\ Gone(issues) \subseteq Gone(issues)'
  /\ Gone(users) \subseteq Gone(users)'

\* C21: a replace that finds its document removed ends with the store's error
\* and writes nothing
C21_StaleReplaceFails ==
  \A r \in Slots :
    /\ (/\ pc[r] = "updateProject_replace" /\ pc'[r] = "idle"
        /\ loc[r].projectId \notin Ids(projects))
         => res'[r].status = 500 /\ projects' = projects
    /\ (/\ pc[r] = "updateIssue_replace" /\ pc'[r] = "idle"
        /\ loc[r].issueId \notin Ids(issues))
         => res'[r].status = 500 /\ issues' = issues
    /\ (/\ pc[r] = "updateMe_replace" /\ pc'[r] = "idle"
        /\ loc[r].userId \notin Ids(users))
         => res'[r].status = 500 /\ users' = users /\ tokens' = tokens

\* C21: once a Project, Issue or User document has been removed, its id never
\* names a document of its container again; an update that read the document
\* before the removal and replaces after it ends with the store's error and
\* stores nothing.
C21_RemovedNeverBack ==
  [][C21_RemovedIsGone /\ C21_GoneStaysGone /\ C21_StaleReplaceFails]_vars

\* C21: an update of an Issue has ended with the store's error because the
\* Issue it read was removed before its replace
C21_Witness ==
  \E r \in Slots :
    /\ pc[r] = "idle"
    /\ loc[r].op = "updateIssue"
    /\ "read" \in DOMAIN loc[r]
    /\ res[r].status = 500
    /\ loc[r].issueId \in Gone(issues)
----------------------------------------------------------------------------
(* C22 *)

\* the stored documents of type Comment
Comments == {d \in issues : d.type = "Comment"}

\* C22: a delete-Issue request that reports the removal takes the one Issue
\* document out of the container and leaves every other document as it was
C22_OnlyIssue ==
  \A r \in Slots :
    Responded(r, "deleteIssue_remove", 200)
      => /\ \E issue \in issues :
              /\ issue.type = "Issue"
              /\ issue.id = loc[r].issueId
              /\ issue.projectId = loc[r].projectId
              /\ issues' = issues \ {issue}
         /\ Comments' = Comments
         /\ CommentsOf(loc[r].projectId, loc[r].issueId)'
              = CommentsOf(loc[r].projectId, loc[r].issueId)
         /\ projects' = projects
         /\ users' = users

\* C22: the Comments of an Issue that is no longer stored are listed as before
C22_StillListed ==
  \A r \in Slots, auth \in tokens :
    /\ \A projectId \in ProjectParams, issueId \in IssueParams :
         (/\ GetCommentListForIssue(r, auth, projectId, issueId)
          /\ ~IssueStored(projectId, issueId))
           => /\ res'[r].status = 200
              /\ IsOldestFirstListOf(res'[r].list, CommentsOf(projectId, issueId))
    /\ GetCommentList(r, auth)
         => /\ res'[r].status = 200
            /\ IsOldestFirstListOf(res'[r].list, Comments)

\* C22: a create-Comment request under an Issue that is no longer stored ends
\* with 404, whatever Comments the Issue has left behind
C22_CreateRefused ==
  \A r \in Slots, auth \in tokens, projectId \in ProjectParams, issueId \in IssueParams,
     body \in CommentBodies :
    (/\ CreateComment(r, auth, projectId, issueId, body)
     /\ ~IssueStored(projectId, issueId)
     /\ CommentsOf(projectId, issueId) # {})
      => res'[r].status = 404 /\ issues' = issues

\* C22: delete Issue (P, X) removes only the Issue document: the Comments with
\* projectId P and issueId X stay in the container unchanged and are still
\* answered by the listing of (P, X) and by the listing of all Comments, and a
\* create-Comment request under (P, X) ends with 404.
C22_DeleteIssueNoCascade == [][C22_OnlyIssue /\ C22_StillListed /\ C22_CreateRefused]_vars

\* C22: the listing of the Comments of a deleted Issue has answered with the
\* Comment the Issue left behind
C22_Witness ==
  /\ loc[1].op = "getCommentListForIssue"
  /\ res[1].status = 200
  /\ Len(res[1].list) > 0
  /\ res[1].list[1] \in issues
  /\ loc[1].issueId \in Gone(issues)
  /\ ~IssueStored(loc[1].projectId, loc[1].issueId)
----------------------------------------------------------------------------
(* C23 *)

\* the requests of the auth router, by the op their handlers record
AuthOps == {"register", "login", "getMe", "updateMe"}

\* the fields of a response that hold an object
ObjectFields == {"user", "token", "resource"}

\* record has a passwordHash field, at its top or in an object it holds
Exposes(record) ==
  \/ "passwordHash" \in DOMAIN record
  \/ \E k \in DOMAIN record \cap ObjectFields : "passwordHash" \in DOMAIN record[k]

\* C23: no response of register, login, read own profile or update own profile
\* and no payload of an issued token holds the passwordHash of a user, whatever
\* requests have been served.
C23_NoPasswordHashOut ==
  /\ \A r \in Slots : loc[r].op \in AuthOps => ~Exposes(res[r])
  /\ \A r \in Slots : "token" \in DOMAIN loc[r] => ~Exposes(loc[r].token)
  /\ \A payload \in tokens : ~Exposes(payload)

\* C23: a user who has changed their password has read their own profile, and
\* the answer holds their profile fields while the store holds the new hash
C23_Witness ==
  /\ loc[1].op = "getMe"
  /\ res[1].status = 200
  /\ \E d \in users :
       /\ d.userId = loc[1].userId
       /\ d.passwordHash = hash("password2")
       /\ res[1].user.email = d.email
       /\ \E payload \in tokens : payload.userId = d.userId
====
